---------------------------- MODULE TracerProofs -----------------------------
(***************************************************************************)
(* Proofs about Tracer, for every set of threads and every bound.  First   *)
(* what always holds.  Then what the server may rely on while no thread    *)
(* dies behind its back: its view of the threads is true, and STOP and     *)
(* STRT do to every thread what their answers say.  A stopped thread dies  *)
(* unseen by exit_group, by exec of another thread, or by SIGKILL; the     *)
(* theorems name the programs and the commands that are left.              *)
(***************************************************************************)
EXTENDS Tracer, TLAPS, FiniteSetTheorems

Views == [k : [Tids -> Task], th : [Tids -> Thread], bug : Bugs]

\* The inductive invariant, for a pair of views: what a status says of its
\* task, and what the server's flags say.
Sound(s) ==
    /\ s \in Views
    /\ \A t \in Tids :
        /\ s.k[t].ev # "none" => s.k[t].st \in {"stop", "gstop", "zombie"}
        /\ s.k[t].ev = "CLONE" => s.k[t].child \in Tids
        /\ s.th[t].here /\ ~s.th[t].running =>
            /\ s.k[t].st \in {"stop", "gstop", "zombie", "none"}
            /\ s.k[t].ev \in {"none", "EXIT", "EXEC"}
        /\ s.th[t].signo # "none" => s.th[t].here /\ ~s.th[t].running
        /\ s.th[t].stopme => s.th[t].here

\* A handler asks no thread to stop, and t has done what it was asked.
Settles(s, r, t) ==
    /\ \A u \in Tids : r.th[u].stopme => s.th[u].stopme
    /\ r.bug # "none" \/ ~r.th[t].stopme

\* The values of a missing task and of a thread_t that is not on the list have
\* their types.
LEMMA NoTaskType == NoTask \in Task /\ NoThread \in Thread
  BY NoTidAssumption, MaxUsrAssumption
  DEF NoTask, NoThread, Task, Thread, TaskStates, Events, Signals

\* PTRACE_CONT changes the state of one task; the rest of its thread group
\* at most gets a pending group stop.
LEMMA PtraceContType ==
  ASSUME NEW kk \in [Tids -> Task], NEW t \in Tids, NEW sig
  PROVE  /\ PtraceCont(kk, t, sig) \in [Tids -> Task]
         /\ \A u \in Tids :
              /\ PtraceCont(kk, t, sig)[u].st = IF u = t THEN "run" ELSE kk[u].st
              /\ PtraceCont(kk, t, sig)[u].ev = IF u = t THEN "none" ELSE kk[u].ev
              /\ PtraceCont(kk, t, sig)[u].child = kk[u].child
<1> DEFINE deliver == kk[t].st = "stop"
           woken == [kk EXCEPT ![t].st = "run", ![t].ev = "none",
                               ![t].got = IF deliver /\ sig = "USR" THEN @ + 1 ELSE @]
<1>1. /\ woken \in [Tids -> Task]
      /\ \A u \in Tids :
              /\ woken[u].st = IF u = t THEN "run" ELSE kk[u].st
              /\ woken[u].ev = IF u = t THEN "none" ELSE kk[u].ev
              /\ woken[u].child = kk[u].child
  <2> DEFINE g == IF deliver /\ sig = "USR" THEN kk[t].got + 1 ELSE kk[t].got
             w == [kk[t] EXCEPT !.st = "run", !.ev = "none", !.got = g]
  <2>1. g \in Nat
    BY DEF Task
  <2> HIDE DEF g
  <2>2. w \in Task /\ w.st = "run" /\ w.ev = "none" /\ w.child = kk[t].child
    BY <2>1 DEF Task, TaskStates, Events
  <2>3. woken = [kk EXCEPT ![t] = w]
    BY DEF g
  <2> HIDE DEF w, woken
  <2> QED BY <2>2, <2>3
<1>2. \A u \in Tids : [woken[u] EXCEPT !.pend = @ \cup {"GSTOP"}] \in Task
  BY <1>1 DEF Task, Signals
<1> HIDE DEF woken, deliver
<1>3. PtraceCont(kk, t, sig) =
        [u \in Tids |->
            IF deliver /\ sig = "STOP" /\ kk[u].tgid = kk[t].tgid /\ Live(kk, u)
            THEN [woken[u] EXCEPT !.pend = @ \cup {"GSTOP"}]
            ELSE woken[u]]
  BY DEF PtraceCont, deliver, woken
<1>4. \A u \in Tids :
        /\ [woken[u] EXCEPT !.pend = @ \cup {"GSTOP"}].st = woken[u].st
        /\ [woken[u] EXCEPT !.pend = @ \cup {"GSTOP"}].ev = woken[u].ev
        /\ [woken[u] EXCEPT !.pend = @ \cup {"GSTOP"}].child = woken[u].child
  BY <1>1 DEF Task
<1> QED BY <1>1, <1>2, <1>3, <1>4

\* thread_continue keeps the views sound, and asks no thread to stop.
LEMMA ContinueSound ==
  ASSUME NEW s, Sound(s), NEW t \in Tids, NEW signo \in {"none", "USR", "STOP"},
         signo # "none" => s.th[t].signo = "none"
  PROVE  /\ Sound(thread_continue(s, t, signo))
         /\ \A u \in Tids : thread_continue(s, t, signo).th[u].stopme = s.th[u].stopme
<1> DEFINE sig == IF signo = "none" THEN s.th[t].signo ELSE signo
           opt == [s.k EXCEPT ![t].opts = @ \/ s.th[t].setoptions]
           kk == PtraceCont(opt, t, sig)
           tt == [s.th EXCEPT ![t].running = TRUE, ![t].setoptions = FALSE,
                              ![t].signo = IF signo = "none" THEN "none" ELSE @]
           r == [k |-> kk, th |-> tt, bug |-> s.bug]
<1>0. s \in Views BY DEF Sound
<1>1. CASE ~s.th[t].here \/ s.th[t].running
  BY <1>1 DEF thread_continue
<1>2. CASE ~(~s.th[t].here \/ s.th[t].running) /\ ~Traceable(s, t)
  <2>1. thread_continue(s, t, signo) = [s EXCEPT !.bug = "ptrace"]
    BY <1>2 DEF thread_continue
  <2> QED BY <2>1 DEF Sound, Views, Bugs
<1>3. CASE ~(~s.th[t].here \/ s.th[t].running) /\ Traceable(s, t)
  <2>1. thread_continue(s, t, signo) = r
    BY <1>3, <1>0 DEF thread_continue, Views
  <2>2. /\ opt \in [Tids -> Task]
        /\ \A u \in Tids : /\ opt[u].st = s.k[u].st /\ opt[u].ev = s.k[u].ev
                           /\ opt[u].child = s.k[u].child
    <3>1. s.k[t].opts \in BOOLEAN /\ s.th[t].setoptions \in BOOLEAN
      BY <1>0 DEF Views, Task, Thread
    <3> QED BY <1>0, <3>1 DEF Views, Task
  <2> HIDE DEF opt, sig
  <2>3. /\ kk \in [Tids -> Task]
        /\ \A u \in Tids :
              /\ kk[u].st = IF u = t THEN "run" ELSE s.k[u].st
              /\ kk[u].ev = IF u = t THEN "none" ELSE s.k[u].ev
              /\ kk[u].child = s.k[u].child
    BY <2>2, PtraceContType
  <2>4. /\ tt \in [Tids -> Thread]
        /\ \A u \in Tids : /\ tt[u].stopme = s.th[u].stopme /\ tt[u].here = s.th[u].here
                           /\ u # t => tt[u] = s.th[u]
        /\ tt[t].running /\ tt[t].signo = "none"
    <3> DEFINE g == IF signo = "none" THEN "none" ELSE s.th[t].signo
               w == [s.th[t] EXCEPT !.running = TRUE, !.setoptions = FALSE, !.signo = g]
    <3>1. s.th \in [Tids -> Thread] /\ g = "none"
      BY <1>0 DEF Views
    <3> HIDE DEF g
    <3>2. /\ w \in Thread /\ w.running /\ w.signo = "none"
          /\ w.stopme = s.th[t].stopme /\ w.here = s.th[t].here
      BY <3>1 DEF Thread
    <3>3. tt = [s.th EXCEPT ![t] = w]
      BY <3>1 DEF g
    <3> HIDE DEF w, tt
    <3> QED BY <3>1, <3>2, <3>3
  <2> HIDE DEF kk, tt
  <2>5. Sound(r)
    BY <1>0, <2>3, <2>4 DEF Sound, Views
  <2> QED BY <2>1, <2>4, <2>5
<1> QED BY <1>1, <1>2, <1>3

\* Calling the NEW_THREAD and NEW_PROCESS handlers keeps the views sound.
LEMMA NotifySound ==
  ASSUME NEW s, Sound(s), NEW t \in Tids
  PROVE  /\ Sound(injection_notify_new_thread(s, t))
         /\ \A u \in Tids :
              /\ injection_notify_new_thread(s, t).th[u].stopme = s.th[u].stopme
              /\ injection_notify_new_thread(s, t).th[u].signo = s.th[u].signo
<1> DEFINE nt == [s.th EXCEPT ![t].notified = TRUE]
           pe == IF Handlers THEN SlaveCallPending(s.k[t].pend) ELSE s.k[t].pend
           w == [s.k[t] EXCEPT !.pend = pe]
           nk == [s.k EXCEPT ![t] = w]
           n == injection_notify_new_thread(s, t)
<1>0. s \in Views BY DEF Sound
<1>1. CASE s.th[t].proc = t /\ InProc(s, t) # {t}
  <2>1. n = [s EXCEPT !.bug = "new_process"]
    BY <1>1 DEF injection_notify_new_thread
  <2> QED BY <2>1, <1>0 DEF Sound, Views, Bugs
<1>2. CASE ~(s.th[t].proc = t /\ InProc(s, t) # {t})
  <2>1. n = [k |-> nk, th |-> nt, bug |-> s.bug]
    BY <1>0, <1>2 DEF injection_notify_new_thread, Views
  <2>2. pe \in SUBSET Signals
    BY <1>0 DEF Views, Task, SlaveCallPending
  <2> HIDE DEF pe
  <2>3. w \in Task /\ w.st = s.k[t].st /\ w.ev = s.k[t].ev /\ w.child = s.k[t].child
    BY <1>0, <2>2 DEF Views, Task
  <2> HIDE DEF w
  <2>4. /\ nt \in [Tids -> Thread]
        /\ \A u \in Tids : /\ nt[u].stopme = s.th[u].stopme /\ nt[u].here = s.th[u].here
                           /\ nt[u].running = s.th[u].running /\ nt[u].signo = s.th[u].signo
    BY <1>0 DEF Views, Thread
  <2>5. /\ nk \in [Tids -> Task]
        /\ \A u \in Tids : /\ nk[u].st = s.k[u].st /\ nk[u].ev = s.k[u].ev
                           /\ nk[u].child = s.k[u].child
    BY <1>0, <2>3 DEF Views
  <2> HIDE DEF nt, nk
  <2> QED BY <1>0, <2>1, <2>4, <2>5 DEF Sound, Views
<1> QED BY <1>1, <1>2

\* thread_continue_or_stop keeps the views sound and withdraws the request to
\* stop.
LEMMA ContinueOrStopSound ==
  ASSUME NEW s, Sound(s), NEW t \in Tids, NEW signo \in {"none", "USR", "STOP"},
         signo # "none" => s.th[t].signo = "none",
         ~s.th[t].running
  PROVE  /\ Sound(thread_continue_or_stop(s, t, signo))
         /\ Settles(s, thread_continue_or_stop(s, t, signo), t)
<1> DEFINE r == thread_continue_or_stop(s, t, signo)
<1>0. s \in Views BY DEF Sound
<1>1. CASE ~s.th[t].here
  BY <1>1 DEF thread_continue_or_stop, Sound, Settles
<1>2. CASE s.th[t].here /\ s.th[t].stopme
  <2> DEFINE g == IF signo = "STOP" THEN "none" ELSE signo
             w == [s.th[t] EXCEPT !.signo = g, !.stopme = FALSE]
             nt == [s.th EXCEPT ![t] = w]
  <2>1. r = [s EXCEPT !.th = nt]
    BY <1>0, <1>2 DEF thread_continue_or_stop, Views
  <2>2. g \in {"none", "USR"}
    OBVIOUS
  <2> HIDE DEF g
  <2>3. w \in Thread /\ ~w.stopme /\ w.here = s.th[t].here /\ ~w.running
    BY <1>0, <2>2 DEF Views, Thread
  <2> HIDE DEF w
  <2>4. /\ nt \in [Tids -> Thread] /\ ~nt[t].stopme /\ nt[t].here /\ ~nt[t].running
        /\ \A u \in Tids : u # t => nt[u] = s.th[u]
    BY <1>0, <1>2, <2>3 DEF Views
  <2> HIDE DEF nt
  <2> QED BY <1>0, <1>2, <2>1, <2>4 DEF Sound, Settles, Views
<1>3. CASE s.th[t].here /\ ~s.th[t].stopme
  <2> DEFINE n == IF s.th[t].notified THEN s ELSE injection_notify_new_thread(s, t)
  <2>1. r = IF n.bug # "none" THEN n ELSE thread_continue(n, t, signo)
    BY <1>3 DEF thread_continue_or_stop
  <2>2. /\ Sound(n)
        /\ \A u \in Tids : n.th[u].stopme = s.th[u].stopme /\ n.th[u].signo = s.th[u].signo
    BY NotifySound
  <2> HIDE DEF n
  <2>3. /\ Sound(thread_continue(n, t, signo))
        /\ \A u \in Tids : thread_continue(n, t, signo).th[u].stopme = n.th[u].stopme
    <3>1. signo # "none" => n.th[t].signo = "none"
      BY <2>2
    <3> QED BY <2>2, <3>1, ContinueSound
  <2> QED BY <1>3, <2>1, <2>2, <2>3 DEF Settles
<1> QED BY <1>1, <1>2, <1>3

\* thread_clone_create_child adds at most one thread_t, with clean flags, and
\* leaves the kernel alone.
LEMMA CreateShape ==
  ASSUME NEW s \in Views, NEW c \in Tids
  PROVE  \/ thread_clone_create_child(s, c) = [s EXCEPT !.bug = "no_parent"]
         \/ \E w \in Thread :
              /\ thread_clone_create_child(s, c) = [s EXCEPT !.th = [s.th EXCEPT ![c] = w]]
              /\ w.here /\ ~w.running /\ ~w.stopme /\ w.signo = "none"
<1> DEFINE w(p) == [here |-> TRUE, proc |-> p, running |-> FALSE,
                    stopme |-> FALSE, signo |-> "none",
                    setoptions |-> TRUE, notified |-> FALSE]
<1>1. \A p \in Tids \cup {NoTid} :
        /\ w(p) \in Thread /\ w(p).here /\ ~w(p).running /\ ~w(p).stopme
        /\ w(p).signo = "none"
  BY DEF Thread
<1>2. \A p : thread_create(s, c, p) = [s EXCEPT !.th = [s.th EXCEPT ![c] = w(p)]]
  BY DEF thread_create, Views
<1>3. s.k[c].tgid \in Tids \cup {NoTid}
  BY DEF Views, Task
<1> HIDE DEF w
<1>4. \/ thread_clone_create_child(s, c) = [s EXCEPT !.bug = "no_parent"]
      \/ thread_clone_create_child(s, c) = thread_create(s, c, s.k[c].tgid)
      \/ thread_clone_create_child(s, c) = thread_create(s, c, c)
  BY DEF thread_clone_create_child
<1>5. ASSUME NEW p \in Tids \cup {NoTid},
             thread_clone_create_child(s, c) = thread_create(s, c, p)
      PROVE  \E v \in Thread :
              /\ thread_clone_create_child(s, c) = [s EXCEPT !.th = [s.th EXCEPT ![c] = v]]
              /\ v.here /\ ~v.running /\ ~v.stopme /\ v.signo = "none"
  <2>1. /\ w(p) \in Thread /\ w(p).here /\ ~w(p).running /\ ~w(p).stopme
        /\ w(p).signo = "none"
    BY <1>1
  <2>2. thread_clone_create_child(s, c) = [s EXCEPT !.th = [s.th EXCEPT ![c] = w(p)]]
    BY <1>2, <1>5
  <2> QED BY <2>1, <2>2
<1> QED BY <1>3, <1>4, <1>5

\* The first status of a clone, reported before its parent's event, is
\* handled soundly.
LEMMA CloneChildSound ==
  ASSUME NEW s, Sound(s), NEW c \in Tids, ~s.th[c].here,
         s.k[c].st \in {"stop", "gstop", "zombie"}, s.k[c].ev = "none"
  PROVE  /\ Sound(thread_handle_clone_child(s, c))
         /\ Settles(s, thread_handle_clone_child(s, c), c)
<1> DEFINE n == thread_clone_create_child(s, c)
<1>0. s \in Views BY DEF Sound
<1>1. CASE n = [s EXCEPT !.bug = "no_parent"]
  <2>1. thread_handle_clone_child(s, c) = [s EXCEPT !.bug = "no_parent"]
    BY <1>0, <1>1 DEF thread_handle_clone_child, Views
  <2> QED BY <1>0, <2>1 DEF Sound, Settles, Views, Bugs
<1>2. ASSUME NEW w \in Thread, n = [s EXCEPT !.th = [s.th EXCEPT ![c] = w]],
             w.here, ~w.running, ~w.stopme, w.signo = "none"
      PROVE  /\ Sound(thread_handle_clone_child(s, c))
             /\ Settles(s, thread_handle_clone_child(s, c), c)
  <2>1. Sound(n) /\ ~n.th[c].running /\ n.bug = s.bug
        /\ \A u \in Tids : n.th[u].stopme => s.th[u].stopme
    BY <1>0, <1>2 DEF Sound, Views
  <2> HIDE DEF n
  <2>2. /\ Sound(thread_continue_or_stop(n, c, "none"))
        /\ Settles(n, thread_continue_or_stop(n, c, "none"), c)
    BY <2>1, ContinueOrStopSound
  <2>3. CASE n.bug = "none"
    <3>1. thread_handle_clone_child(s, c) = thread_continue_or_stop(n, c, "none")
      BY <2>3 DEF thread_handle_clone_child, n
    <3> QED BY <2>1, <2>2, <3>1 DEF Settles
  <2>4. CASE n.bug # "none"
    <3>1. thread_handle_clone_child(s, c) = n
      BY <2>4 DEF thread_handle_clone_child, n
    <3> QED BY <2>1, <2>4, <3>1 DEF Settles
  <2> QED BY <2>3, <2>4
<1> QED BY <1>0, <1>1, <1>2, CreateShape

\* The parent's half of a clone event is handled soundly, whether the child
\* is known or not.
LEMMA CloneParentSound ==
  ASSUME NEW s, Sound(s), NEW t \in Tids, s.th[t].here, ~s.th[t].running,
         NEW c \in Tids
  PROVE  /\ Sound(thread_handle_clone_parent(s, t, c))
         /\ Settles(s, thread_handle_clone_parent(s, t, c), t)
<1> DEFINE n == thread_clone_create_child(s, c)
           r == IF s.th[c].here THEN s ELSE [n EXCEPT !.th[c].running = TRUE]
<1>0. s \in Views BY DEF Sound
<1>1. /\ Sound(r) /\ ~r.th[t].running
      /\ \A u \in Tids : r.th[u].stopme => s.th[u].stopme
  <2>1. CASE s.th[c].here
    BY <2>1
  <2>2. CASE ~s.th[c].here /\ n = [s EXCEPT !.bug = "no_parent"]
    <3> DEFINE w == [s.th[c] EXCEPT !.running = TRUE]
    <3>1. r = [k |-> s.k, th |-> [s.th EXCEPT ![c] = w], bug |-> "no_parent"]
      BY <1>0, <2>2 DEF Views
    <3>2. w \in Thread /\ ~w.here /\ w.stopme = s.th[c].stopme /\ w.signo = s.th[c].signo
      <4>1. s.th[c] \in Thread
        BY <1>0 DEF Views
      <4> QED BY <2>2, <4>1 DEF Thread
    <3> HIDE DEF w
    <3> QED BY <1>0, <2>2, <3>1, <3>2 DEF Sound, Views, Bugs
  <2>3. ASSUME ~s.th[c].here, NEW v \in Thread,
               n = [s EXCEPT !.th = [s.th EXCEPT ![c] = v]],
               v.here, ~v.running, ~v.stopme, v.signo = "none"
        PROVE  /\ Sound(r) /\ ~r.th[t].running
               /\ \A u \in Tids : r.th[u].stopme => s.th[u].stopme
    <3> DEFINE w == [v EXCEPT !.running = TRUE]
    <3>1. r = [k |-> s.k, th |-> [s.th EXCEPT ![c] = w], bug |-> s.bug]
      BY <1>0, <2>3 DEF Views
    <3>2. w \in Thread /\ w.here /\ w.running /\ ~w.stopme /\ w.signo = "none"
      BY <2>3 DEF Thread
    <3> HIDE DEF w
    <3> QED BY <1>0, <2>3, <3>1, <3>2 DEF Sound, Views
  <2> QED BY <1>0, <2>1, <2>2, <2>3, CreateShape
<1>2. thread_handle_clone_parent(s, t, c) =
        IF r.bug # "none" THEN r ELSE thread_continue_or_stop(r, t, "none")
  BY DEF thread_handle_clone_parent
<1> HIDE DEF r
<1>3. /\ Sound(thread_continue_or_stop(r, t, "none"))
      /\ Settles(r, thread_continue_or_stop(r, t, "none"), t)
  BY <1>1, ContinueOrStopSound
<1> QED BY <1>1, <1>2, <1>3 DEF Settles

\* thread_exec keeps the views sound.
LEMMA ExecSound ==
  ASSUME NEW s, Sound(s), NEW t \in Tids, ~s.th[t].running
  PROVE  /\ Sound(thread_exec(s, t))
         /\ Settles(s, thread_exec(s, t), t)
<1> DEFINE p == s.th[t].proc
           alone == [u \in Tids |-> IF s.th[u].here /\ s.th[u].proc = p /\ u # t
                                    THEN NoThread ELSE s.th[u]]
           usr == IF "USR" \in s.k[t].pend THEN 1 ELSE 0
           w == [s.k[t] EXCEPT !.pend = {}, !.got = @ + usr]
           x == ExecReset(s, t)
<1>0. s \in Views BY DEF Sound
<1>1. CASE ~Traceable(s, t)
  <2>1. thread_exec(s, t) = [s EXCEPT !.bug = "ptrace"]
    BY <1>1 DEF thread_exec
  <2> QED BY <1>0, <2>1 DEF Sound, Settles, Views, Bugs
<1>2. CASE Traceable(s, t)
  <2>1. thread_exec(s, t) = thread_continue_or_stop(x, t, "none")
    BY <1>2 DEF thread_exec
  <2>2. w \in Task /\ w.st = s.k[t].st /\ w.ev = s.k[t].ev /\ w.child = s.k[t].child
    <3>1. s.k[t] \in Task /\ usr \in Nat
      BY <1>0 DEF Views
    <3> HIDE DEF usr
    <3> DEFINE g == s.k[t].got + usr
    <3>2. g \in Nat
      BY <3>1 DEF Task
    <3> HIDE DEF g
    <3>3. w = [s.k[t] EXCEPT !.pend = {}, !.got = g]
      BY DEF g
    <3> HIDE DEF w
    <3> QED BY <3>1, <3>2, <3>3 DEF Task
  <2>3. /\ alone \in [Tids -> Thread] /\ alone[t] = s.th[t]
        /\ \A u \in Tids : alone[u] = s.th[u] \/ alone[u] = NoThread
    BY <1>0, NoTaskType DEF Views
  <2>10. /\ x.th = alone /\ x.bug = s.bug
        /\ x.k = [s.k EXCEPT ![t] = w]
        /\ x = [k |-> x.k, th |-> x.th, bug |-> x.bug]
    <3> DEFINE nk == [s.k EXCEPT ![t] = w]
    <3>1. x = [s EXCEPT !.k = nk, !.th = alone]
      BY DEF ExecReset
    <3> HIDE DEF w, alone, nk, x
    <3>2. /\ x.th = alone /\ x.bug = s.bug /\ x.k = nk
          /\ x = [k |-> x.k, th |-> x.th, bug |-> x.bug]
      BY <1>0, <3>1 DEF Views
    <3> QED BY <3>2 DEF nk
  <2> HIDE DEF w, alone, x
  <2>4. Sound(x) /\ ~x.th[t].running /\ \A u \in Tids : x.th[u].stopme => s.th[u].stopme
    BY <1>0, <2>2, <2>3, <2>10 DEF Sound, Views, NoThread
  <2>5. /\ Sound(thread_continue_or_stop(x, t, "none"))
        /\ Settles(x, thread_continue_or_stop(x, t, "none"), t)
    BY <2>4, ContinueOrStopSound
  <2> QED BY <2>1, <2>4, <2>5 DEF Settles
<1> QED BY <1>1, <1>2

\* Whatever status a known thread reports, thread_handle_status leaves sound
\* views and no request to stop that thread.
LEMMA StatusSound ==
  ASSUME NEW s, Sound(s), NEW t \in Tids, s.th[t].here, s.k[t].ev # "none"
  PROVE  /\ Sound(thread_handle_status(s, t))
         /\ Settles(s, thread_handle_status(s, t), t)
<1> DEFINE ev == s.k[t].ev
           w == [s.th[t] EXCEPT !.running = FALSE]
           x == [w EXCEPT !.setoptions = TRUE]
           q == IF ev = "EXIT" THEN NoTask ELSE [s.k[t] EXCEPT !.ev = "none"]
           r == [Reap(s, t) EXCEPT !.th = [@ EXCEPT ![t].running = FALSE]]
           e == [r EXCEPT !.th = [@ EXCEPT ![t].setoptions = TRUE]]
           h == thread_handle_status(s, t)
<1>0. s \in Views /\ s.th[t] \in Thread /\ s.k[t] \in Task
  BY DEF Sound, Views
<1>1. /\ w \in Thread /\ ~w.running /\ w.here /\ w.stopme = s.th[t].stopme
      /\ w.signo = s.th[t].signo
      /\ x \in Thread /\ ~x.running /\ x.here /\ x.stopme = s.th[t].stopme
      /\ x.signo = s.th[t].signo
  BY <1>0 DEF Thread
<1>2. /\ q \in Task /\ q.ev = "none" /\ q.st \in {"stop", "gstop", "zombie", "none"}
  BY <1>0, NoTaskType DEF Sound, Task, Events, NoTask
<1>3. /\ r.th = [s.th EXCEPT ![t] = w] /\ r.k = [s.k EXCEPT ![t] = q] /\ r.bug = s.bug
      /\ r = [k |-> r.k, th |-> r.th, bug |-> r.bug]
  <2> DEFINE z == Reap(s, t)
  <2>1. /\ z.k = [s.k EXCEPT ![t] = q] /\ z.th = s.th /\ z.bug = s.bug
        /\ z = [k |-> z.k, th |-> z.th, bug |-> z.bug]
    BY <1>0 DEF Reap, Views
  <2>2. [z.th EXCEPT ![t].running = FALSE] = [s.th EXCEPT ![t] = w]
    BY <1>0, <2>1 DEF Views
  <2> DEFINE nt == [z.th EXCEPT ![t].running = FALSE]
  <2>3. r = [z EXCEPT !.th = nt]
    OBVIOUS
  <2> HIDE DEF z, q, w, nt, r
  <2>4. /\ r.th = nt /\ r.k = z.k /\ r.bug = z.bug
        /\ r = [k |-> r.k, th |-> r.th, bug |-> r.bug]
    BY <2>1, <2>3
  <2> QED BY <2>1, <2>2, <2>4 DEF nt
<1>4. /\ e.th = [s.th EXCEPT ![t] = x] /\ e.k = r.k /\ e.bug = s.bug
      /\ e = [k |-> e.k, th |-> e.th, bug |-> e.bug]
  <2> HIDE DEF r
  <2>1. [r.th EXCEPT ![t].setoptions = TRUE] = [s.th EXCEPT ![t] = x]
    BY <1>0, <1>3 DEF Views
  <2> DEFINE nt == [r.th EXCEPT ![t].setoptions = TRUE]
  <2>2. e = [r EXCEPT !.th = nt]
    OBVIOUS
  <2> HIDE DEF x, nt, e
  <2>3. /\ e.th = nt /\ e.k = r.k /\ e.bug = r.bug
        /\ e = [k |-> e.k, th |-> e.th, bug |-> e.bug]
    BY <1>3, <2>2
  <2> QED BY <1>3, <2>1, <2>3 DEF nt
<1> HIDE DEF r, e
<1> HIDE DEF w, x, q
<1>5. /\ Sound(r) /\ r.th[t] = w
      /\ Sound(e) /\ e.th[t] = x
      /\ \A u \in Tids : r.th[u].stopme => s.th[u].stopme
      /\ \A u \in Tids : e.th[u].stopme => s.th[u].stopme
  BY <1>0, <1>1, <1>2, <1>3, <1>4 DEF Sound, Views
<1>6. CASE ev = "CLONE"
  <2>1. h = thread_handle_clone_parent(e, t, s.k[t].child)
    BY <1>6 DEF thread_handle_status, r, e
  <2>2. s.k[t].child \in Tids
    BY <1>6 DEF Sound
  <2>3. Sound(h) /\ Settles(e, h, t)
    BY <1>1, <1>5, <2>1, <2>2, CloneParentSound
  <2> QED BY <1>5, <2>3 DEF Settles
<1>7. CASE ev = "EXEC"
  <2>1. h = thread_exec(e, t)
    BY <1>7 DEF thread_handle_status, r, e
  <2>2. Sound(h) /\ Settles(e, h, t)
    BY <1>1, <1>5, <2>1, ExecSound
  <2> QED BY <1>5, <2>2 DEF Settles
<1>8. CASE ev = "EXIT"
  <2>1. h = thread_exit(r, t)
    BY <1>8 DEF thread_handle_status, r
  <2>2. h = [r EXCEPT !.th = [r.th EXCEPT ![t] = NoThread]]
    <3>1. r.th \in [Tids -> Thread]
      BY <1>5 DEF Sound, Views
    <3> QED BY <2>1, <3>1 DEF thread_exit
  <2>3. /\ r \in Views /\ h \in Views /\ h.k = r.k /\ h.th[t] = NoThread
        /\ \A u \in Tids : u # t => h.th[u] = r.th[u]
    BY <1>5, <2>2, NoTaskType DEF Sound, Views
  <2>4. ~NoThread.here /\ ~NoThread.stopme /\ NoThread.signo = "none"
    BY DEF NoThread
  <2> HIDE DEF h
  <2>5. Sound(h)
    BY <1>5, <2>3, <2>4 DEF Sound
  <2>6. Settles(r, h, t)
    BY <2>3, <2>4 DEF Settles
  <2> QED BY <1>5, <2>5, <2>6 DEF Settles, h
<1>9. CASE ev \in {"STOP", "GSTOP", "USR"}
  <2> DEFINE sig == IF ev = "USR" THEN "USR" ELSE "STOP"
  <2>1. h = thread_continue_or_stop(r, t, sig)
    BY <1>9 DEF thread_handle_status, r
  <2>2. r.th[t].signo = "none" /\ ~r.th[t].running
    BY <1>1, <1>5, <1>9 DEF Sound
  <2>3. Sound(h) /\ Settles(r, h, t)
    BY <1>5, <2>1, <2>2, ContinueOrStopSound
  <2> QED BY <1>5, <2>3 DEF Settles
<1>10. ev \in {"CLONE", "EXEC", "EXIT", "STOP", "GSTOP", "USR"}
  BY <1>0 DEF Task, Events, Signals
<1> QED BY <1>6, <1>7, <1>8, <1>9, <1>10

\* One turn of wait_main is sound, for known and for unknown threads.
LEMMA WaitMainSound ==
  ASSUME NEW s, Sound(s), NEW t \in Tids, s.k[t].ev # "none"
  PROVE  /\ Sound(wait_main_one(s, t))
         /\ \A u \in Tids : wait_main_one(s, t).th[u].stopme => s.th[u].stopme
<1>1. CASE s.th[t].here
  BY <1>1, StatusSound DEF wait_main_one, Settles
<1>2. CASE ~s.th[t].here
  <2> DEFINE q == IF s.k[t].ev = "EXIT" THEN NoTask ELSE [s.k[t] EXCEPT !.ev = "none"]
             r == Reap(s, t)
  <2>0. s \in Views /\ s.k[t] \in Task
    BY DEF Sound, Views
  <2>1. /\ q \in Task /\ q.ev = "none"
        /\ s.k[t].ev = "STOP" => q.st = s.k[t].st
    BY <2>0, NoTaskType DEF Task, Events, NoTask
  <2>2. r = [s EXCEPT !.k = [s.k EXCEPT ![t] = q]]
    BY <2>0 DEF Reap, Views
  <2> HIDE DEF q
  <2>3. Sound(r) /\ r.th = s.th /\ r.k[t] = q
    BY <1>2, <2>0, <2>1, <2>2 DEF Sound, Views
  <2>4. CASE s.k[t].ev # "STOP"
    BY <1>2, <2>3, <2>4 DEF wait_main_one, thread_handle_status_unknown
  <2>5. CASE s.k[t].ev = "STOP"
    <3>1. wait_main_one(s, t) = thread_handle_clone_child(r, t)
      BY <1>2, <2>5 DEF wait_main_one, thread_handle_status_unknown
    <3>2. r.k[t].st \in {"stop", "gstop", "zombie"}
      BY <2>1, <2>3, <2>5 DEF Sound
    <3> QED BY <1>2, <2>1, <2>3, <3>1, <3>2, CloneChildSound DEF Settles
  <2> QED BY <2>4, <2>5
<1> QED BY <1>1, <1>2

\* thread_wait on one known thread is sound, when the thread has gone
\* (ECHILD) as well.
LEMMA WaitSound ==
  ASSUME NEW s, Sound(s), NEW t \in Tids, s.th[t].here, CanWait(s, t)
  PROVE  /\ Sound(thread_wait(s, t))
         /\ Settles(s, thread_wait(s, t), t)
<1>0. s \in Views BY DEF Sound
<1>1. CASE s.k[t].st = "none"
  <2> DEFINE h == thread_wait(s, t)
  <2>1. h = [s EXCEPT !.th = [s.th EXCEPT ![t] = NoThread]]
    BY <1>0, <1>1 DEF thread_wait, thread_exit, Views
  <2> HIDE DEF h
  <2>2. /\ h \in Views /\ h.k = s.k /\ h.th[t] = NoThread
        /\ \A u \in Tids : u # t => h.th[u] = s.th[u]
    BY <1>0, <2>1, NoTaskType DEF Views
  <2>3. ~NoThread.here /\ ~NoThread.stopme /\ NoThread.signo = "none"
    BY DEF NoThread
  <2>4. Sound(h)
    BY <2>2, <2>3 DEF Sound
  <2>5. Settles(s, h, t)
    BY <2>2, <2>3 DEF Settles
  <2> QED BY <2>4, <2>5 DEF h
<1>2. CASE s.k[t].st # "none"
  <2>1. s.k[t].ev # "none"
    BY <1>2 DEF CanWait, Waitable
  <2>2. thread_wait(s, t) = thread_handle_status(s, t)
    BY <1>2 DEF thread_wait
  <2> QED BY <2>1, <2>2, StatusSound
<1> QED BY <1>1, <1>2

\* Continuing every process keeps the views sound.
LEMMA ContinueAllSound ==
  ASSUME NEW s, Sound(s)
  PROVE  /\ Sound(process_continue_all(s))
         /\ \A u \in Tids : process_continue_all(s).th[u].stopme => s.th[u].stopme
<1> DEFINE waiting == {t \in Tids : s.th[t].here /\ ~s.th[t].running}
           opt(t) == [s.k EXCEPT ![t].opts = @ \/ s.th[t].setoptions]
           w(t) == [s.th[t] EXCEPT !.running = TRUE, !.setoptions = FALSE,
                                   !.signo = "none"]
           q(t) == PtraceCont(opt(t), t, s.th[t].signo)[t]
           nt == [t \in Tids |-> IF t \in waiting THEN w(t) ELSE s.th[t]]
           nk == [t \in Tids |-> IF t \in waiting THEN q(t) ELSE s.k[t]]
           r == process_continue_all(s)
<1>0. s \in Views BY DEF Sound
<1>1. CASE \E t \in waiting : ~Traceable(s, t)
  <2>1. r = [s EXCEPT !.bug = "ptrace"]
    BY <1>1 DEF process_continue_all
  <2> QED BY <1>0, <2>1 DEF Sound, Views, Bugs
<1>2. CASE ~ \E t \in waiting : ~Traceable(s, t)
  <2>1. r = [s EXCEPT !.th = nt, !.k = nk]
    BY <1>2 DEF process_continue_all
  <2>2. \A t \in Tids : /\ w(t) \in Thread /\ w(t).running /\ w(t).signo = "none"
                        /\ w(t).stopme = s.th[t].stopme /\ w(t).here = s.th[t].here
    BY <1>0 DEF Views, Thread
  <2>3. \A t \in Tids : q(t) \in Task /\ q(t).st = "run" /\ q(t).ev = "none"
    <3> TAKE t \in Tids
    <3>1. s.k[t].opts \in BOOLEAN /\ s.th[t].setoptions \in BOOLEAN
      BY <1>0 DEF Views, Task, Thread
    <3>2. opt(t) \in [Tids -> Task]
      BY <1>0, <3>1 DEF Views, Task
    <3> HIDE DEF opt
    <3> QED BY <3>2, PtraceContType
  <2> HIDE DEF w, q
  <2>4. /\ nt \in [Tids -> Thread] /\ nk \in [Tids -> Task]
        /\ \A t \in Tids : /\ t \in waiting => nt[t] = w(t) /\ nk[t] = q(t)
                           /\ t \notin waiting => nt[t] = s.th[t] /\ nk[t] = s.k[t]
    BY <1>0, <2>2, <2>3 DEF Views
  <2> HIDE DEF nt, nk, r
  <2>5. r = [k |-> nk, th |-> nt, bug |-> s.bug]
    BY <1>0, <2>1 DEF Views
  <2>6. r \in Views
    BY <1>0, <2>4, <2>5 DEF Views
  <2>7. Sound(r)
    BY <2>2, <2>3, <2>4, <2>5, <2>6 DEF Sound
  <2>8. \A u \in Tids : r.th[u].stopme => s.th[u].stopme
    BY <2>2, <2>4, <2>5
  <2> QED BY <2>7, <2>8 DEF r
<1> QED BY <1>1, <1>2

\* A step that installs sound views ends in a sound state.
LEMMA BecomesSound ==
  ASSUME NEW v, Sound(v), Becomes(v)
  PROVE  Sound(View)'
<1>1. View' = v
  BY DEF View, Becomes, Sound, Views
<1>2. Sound(View)' <=> Sound(View')
  BY DEF Sound, Views
<1> QED BY <1>1, <1>2

\* What Sound says of one task.
TaskOK(q, u) ==
    /\ q \in Task
    /\ q.ev # "none" => q.st \in {"stop", "gstop", "zombie"}
    /\ q.ev = "CLONE" => q.child \in Tids
    /\ th[u].here /\ ~th[u].running =>
        /\ q.st \in {"stop", "gstop", "zombie", "none"}
        /\ q.ev \in {"none", "EXIT", "EXEC"}

\* In a sound state each task agrees with what the server holds of it.
LEMMA TasksOK ==
  ASSUME Sound(View)
  PROVE  /\ k \in [Tids -> Task] /\ th \in [Tids -> Thread] /\ bug \in Bugs
         /\ \A u \in Tids : TaskOK(k[u], u)
  BY DEF Sound, Views, View, TaskOK

\* A step of the kernel that keeps each task in agreement is sound.
LEMMA TasksSound ==
  ASSUME Sound(View), NEW kk \in [Tids -> Task], \A u \in Tids : TaskOK(kk[u], u),
         k' = kk, th' = th, bug' = bug
  PROVE  Sound(View)'
<1>1. Sound([k |-> kk, th |-> th, bug |-> bug])
  BY DEF Sound, Views, View, TaskOK
<1>2. Becomes([k |-> kk, th |-> th, bug |-> bug])
  BY DEF Becomes
<1> QED BY <1>1, <1>2, BecomesSound

\* A task that dies agrees with any view the server may have of it.
LEMMA DeadOK ==
  ASSUME NEW u \in Tids, NEW q \in Task
  PROVE  TaskOK(Dead(q), u)
  BY DEF TaskOK, Dead, Task, TaskStates, Events

\* Nothing the traced program or the kernel does breaks soundness.
LEMMA KernelSound ==
  ASSUME Sound(View), NEW t \in Tids, Kernel(t)
  PROVE  Sound(View)' /\ th' = th /\ bug' = bug
<1> USE TasksOK
<1>1. ASSUME Deliver(t) PROVE Sound(View)' /\ th' = th /\ bug' = bug
  <2>1. PICK sig \in k[t].pend :
          k' = [k EXCEPT ![t].st = IF sig = "GSTOP" THEN "gstop" ELSE "stop",
                         ![t].pend = @ \ {sig}, ![t].ev = sig]
    BY <1>1 DEF Deliver
  <2> DEFINE st == IF sig = "GSTOP" THEN "gstop" ELSE "stop"
             q == [k[t] EXCEPT !.st = st, !.pend = @ \ {sig}, !.ev = sig]
  <2>2. k[t] \in Task /\ sig \in Signals
    BY DEF Task
  <2>3. st \in {"stop", "gstop"}
    OBVIOUS
  <2>4. k' = [k EXCEPT ![t] = q]
    BY <2>1
  <2> HIDE DEF st
  <2>5. q \in Task /\ q.st = st /\ q.ev = sig
    BY <2>2, <2>3 DEF Task, TaskStates, Events
  <2>6. th[t].here => th[t].running
    BY <1>1 DEF Deliver, TaskOK
  <2>7. TaskOK(q, t)
    BY <2>2, <2>3, <2>5, <2>6 DEF TaskOK, Signals
  <2> HIDE DEF q
  <2>8. /\ [k EXCEPT ![t] = q] \in [Tids -> Task]
        /\ \A u \in Tids : TaskOK([k EXCEPT ![t] = q][u], u)
    BY <2>5, <2>7
  <2>9. th' = th /\ bug' = bug
    BY <1>1 DEF Deliver
  <2> QED BY <2>4, <2>8, <2>9, TasksSound
<1>2. ASSUME SendUsr(t) PROVE Sound(View)' /\ th' = th /\ bug' = bug
  <2> DEFINE q == [k[t] EXCEPT !.pend = @ \cup {"USR"}, !.sent = @ + 1]
  <2>1. k' = [k EXCEPT ![t] = q] /\ th' = th /\ bug' = bug
    BY <1>2 DEF SendUsr
  <2>2. k[t] \in Task /\ k[t].sent + 1 \in 0..MaxUsr
    BY <1>2, MaxUsrAssumption DEF SendUsr, Task
  <2>3. q \in Task /\ q.st = k[t].st /\ q.ev = k[t].ev /\ q.child = k[t].child
    BY <2>2 DEF Task, Signals
  <2> HIDE DEF q
  <2>4. TaskOK(q, t)
    BY <2>3 DEF TaskOK
  <2>5. /\ [k EXCEPT ![t] = q] \in [Tids -> Task]
        /\ \A u \in Tids : TaskOK([k EXCEPT ![t] = q][u], u)
    BY <2>3, <2>4
  <2> QED BY <2>1, <2>5, TasksSound
<1>3. ASSUME NEW c \in Tids, NEW tg \in Tids \cup {NoTid}, NewTask(t, c, tg)
      PROVE Sound(View)' /\ th' = th /\ bug' = bug
  <2> DEFINE pp == IF tg = c THEN k[t].tgid ELSE NoTid
             q == [NoTask EXCEPT !.st = "born", !.tgid = tg, !.pend = {"STOP"},
                                 !.ppid = pp, !.opts = TRUE]
             r == [k[t] EXCEPT !.st = "stop", !.ev = "CLONE", !.child = c]
             kk == [k EXCEPT ![c] = q, ![t] = r]
  <2>1. c # t /\ ~th[c].here /\ th' = th /\ bug' = bug
        /\ (th[t].here => th[t].running)
    BY <1>3 DEF NewTask, TaskOK
  <2>2. k' = kk
    BY <1>3, <2>1 DEF NewTask
  <2>3. k[t] \in Task /\ pp \in Tids \cup {NoTid}
    BY DEF Task
  <2> HIDE DEF pp
  <2>4. q \in Task /\ q.ev = "none"
    <3>1. NoTask \in Task /\ NoTask.ev = "none"
      BY NoTaskType DEF NoTask
    <3> QED BY <2>3, <3>1 DEF Task, TaskStates, Signals
  <2>5. r \in Task /\ r.st = "stop" /\ r.ev = "CLONE" /\ r.child = c
    BY <2>3 DEF Task, TaskStates, Events
  <2> HIDE DEF q, r
  <2>6. TaskOK(q, c) /\ TaskOK(r, t)
    BY <2>1, <2>4, <2>5 DEF TaskOK
  <2>7. kk \in [Tids -> Task] /\ \A u \in Tids : TaskOK(kk[u], u)
    BY <2>1, <2>4, <2>5, <2>6
  <2> HIDE DEF kk
  <2> QED BY <2>1, <2>2, <2>7, TasksSound
<1>4. ASSUME Exit(t) PROVE Sound(View)' /\ th' = th /\ bug' = bug
  <2>1. k' = [k EXCEPT ![t] = Dead(k[t])] /\ th' = th /\ bug' = bug
    BY <1>4 DEF Exit
  <2>2. TaskOK(Dead(k[t]), t)
    BY DeadOK
  <2>3. /\ [k EXCEPT ![t] = Dead(k[t])] \in [Tids -> Task]
        /\ \A u \in Tids : TaskOK([k EXCEPT ![t] = Dead(k[t])][u], u)
    BY <2>2 DEF TaskOK
  <2> QED BY <2>1, <2>3, TasksSound
<1>5. ASSUME ExitGroup(t) PROVE Sound(View)' /\ th' = th /\ bug' = bug
  <2> DEFINE kk == KillGroup(k, k[t].tgid)
  <2>1. k' = kk /\ th' = th /\ bug' = bug
    BY <1>5 DEF ExitGroup
  <2>2. kk \in [Tids -> Task] /\ \A u \in Tids : TaskOK(kk[u], u)
    <3>1. \A u \in Tids : TaskOK(Dead(k[u]), u) /\ Dead(k[u]) \in Task
      BY DeadOK DEF TaskOK
    <3> QED BY <3>1 DEF KillGroup
  <2> HIDE DEF kk
  <2> QED BY <2>1, <2>2, TasksSound
<1>6. ASSUME Exec(t) PROVE Sound(View)' /\ th' = th /\ bug' = bug
  <2> DEFINE p == k[t].tgid
             q == [k[t] EXCEPT !.st = "stop", !.ev = "EXEC", !.ppid = k[p].ppid]
             kk == [k EXCEPT ![t] = NoTask, ![p] = q]
  <2>1. k' = kk /\ th' = th /\ bug' = bug
    BY <1>6 DEF Exec
  <2>2. TaskOK(NoTask, t) /\ NoTask \in Task
    BY NoTaskType DEF TaskOK, NoTask
  <2>3. CASE p \in Tids
    <3>1. k[t] \in Task /\ k[p].ppid \in Tids \cup {NoTid}
      BY <2>3 DEF Task
    <3>2. q \in Task /\ q.st = "stop" /\ q.ev = "EXEC"
      BY <3>1 DEF Task, TaskStates, Events
    <3> HIDE DEF q
    <3>3. TaskOK(q, p)
      BY <3>2 DEF TaskOK
    <3>4. kk \in [Tids -> Task] /\ \A u \in Tids : TaskOK(kk[u], u)
      BY <2>2, <2>3, <3>2, <3>3
    <3> HIDE DEF kk
    <3> QED BY <2>1, <3>4, TasksSound
  <2>4. CASE p \notin Tids
    <3> HIDE DEF q
    <3>1. kk \in [Tids -> Task] /\ \A u \in Tids : TaskOK(kk[u], u)
      BY <2>2, <2>4
    <3> HIDE DEF kk
    <3> QED BY <2>1, <3>1, TasksSound
  <2> QED BY <2>3, <2>4
<1>7. k[t].tgid \in Tids \cup {NoTid}
  BY DEF Task
<1> QED BY <1>1, <1>2, <1>3, <1>4, <1>5, <1>6, <1>7 DEF Kernel, Program, Clone, Fork

------------------------------------------------------------------------------
(* The invariant                                                           *)

\* A thread that is waited for exists and is known.
Waits == pc \in {"stop_wait", "kill_wait"} /\ bug = "none" => curt \in Tids /\ th[curt].here

Inv == TypeOK /\ Sound(View) /\ NoStaleStopme /\ Waits

\* The invariant holds once process_attach has stopped the first process.
LEMMA InitInv == Init => Inv
<1> SUFFICES ASSUME Init PROVE Inv
  OBVIOUS
<1> DEFINE q == [NoTask EXCEPT !.st = "stop", !.tgid = Leader]
           w == [NoThread EXCEPT !.here = TRUE, !.proc = Leader,
                                 !.setoptions = TRUE, !.notified = TRUE]
<1>1. NoTask \in Task /\ NoTask.ev = "none" /\ NoThread \in Thread
      /\ ~NoThread.here /\ ~NoThread.stopme /\ NoThread.signo = "none"
  BY NoTaskType DEF NoTask, NoThread
<1>2. q \in Task /\ q.st = "stop" /\ q.ev = "none"
  BY <1>1, LeaderAssumption DEF Task, TaskStates
<1>3. w \in Thread /\ w.here /\ ~w.running /\ ~w.stopme /\ w.signo = "none"
  <2>1. ~NoThread.running
    BY DEF NoThread
  <2> QED BY <1>1, <2>1, LeaderAssumption DEF Thread
<1>4. /\ k = [t \in Tids |-> IF t = Leader THEN q ELSE NoTask]
      /\ th = [t \in Tids |-> IF t = Leader THEN w ELSE NoThread]
      /\ bug = "none" /\ tracing = FALSE /\ pc = "loop" /\ op = "none"
      /\ todo = {} /\ cur = NoTid /\ curt = NoTid /\ cmds = 0
  BY DEF Init
<1> HIDE DEF q, w
<1>5. /\ k \in [Tids -> Task] /\ th \in [Tids -> Thread] /\ bug = "none"
      /\ \A t \in Tids : /\ k[t].ev = "none" /\ ~th[t].stopme /\ th[t].signo = "none"
                         /\ th[t].here => k[t].st = "stop"
  BY <1>1, <1>2, <1>3, <1>4
<1>6. Sound(View)
  BY <1>5 DEF Sound, View, Views, Bugs
<1>7. TypeOK
  <2>1. tracing \in BOOLEAN
    BY <1>4
  <2>2. ThreadsTypeOK
    BY <1>6 DEF Sound, View, Views, ThreadsTypeOK
  <2>3. /\ todo \subseteq Tids \cup {NoTid} /\ cmds \in 0..MaxCmds
        /\ op \in Commands \cup {"none"}
        /\ cur \in Tids \cup {NoTid} /\ curt \in Tids \cup {NoTid}
    BY <1>4, MaxCmdsAssumption
  <2> QED BY <1>4, <2>1, <2>2, <2>3 DEF TypeOK
<1> QED BY <1>4, <1>5, <1>6, <1>7 DEF Inv, NoStaleStopme, Waits

\* The part of TypeOK that Sound does not give.
Rest == /\ tracing \in BOOLEAN
        /\ pc \in {"loop", "any_running", "stop_iter", "process_stop",
                   "stop_wait", "detach", "process_kill", "kill_wait"}
        /\ op \in Commands \cup {"none"}
        /\ todo \subseteq Tids \cup {NoTid}
        /\ cur \in Tids \cup {NoTid}
        /\ curt \in Tids \cup {NoTid}
        /\ cmds \in 0..MaxCmds

\* The type invariant, split into the threads and the command in progress.
LEMMA TypeParts == TypeOK <=> (ThreadsTypeOK /\ Rest)
  BY DEF TypeOK, Rest

\* Sound views are well typed, before a step and after it.
LEMMA SoundType == (Sound(View) => ThreadsTypeOK) /\ (Sound(View)' => ThreadsTypeOK')
  BY DEF Sound, View, Views, ThreadsTypeOK

\* The processes of the known threads are process ids.
LEMMA ProcsType == ASSUME Sound(View) PROVE Procs(View) \subseteq Tids \cup {NoTid}
  BY DEF Sound, View, Views, Procs, Thread

\* Steps that only change where the server is.
LEMMA SilentStep ==
  ASSUME Inv, k' = k, th' = th, bug' \in Bugs, bug' = "none" => bug = "none"
  PROVE  Sound(View)'
<1>1. Sound([k |-> k, th |-> th, bug |-> bug'])
  BY DEF Inv, Sound, View, Views
<1>2. Becomes([k |-> k, th |-> th, bug |-> bug'])
  BY DEF Becomes
<1> QED BY <1>1, <1>2, BecomesSound

\* Every step of the server, the kernel and the program keeps the invariant.
LEMMA NextInv == Inv /\ [Next]_vars => Inv'
<1> SUFFICES ASSUME Inv, [Next]_vars PROVE Inv'
  OBVIOUS
<1>0. Sound(View) /\ Rest /\ NoStaleStopme /\ Waits
  BY TypeParts DEF Inv
<1>00. SUFFICES Sound(View)' /\ Rest' /\ NoStaleStopme' /\ Waits'
  BY SoundType DEF Inv, TypeOK, Rest
<1>01. View.k = k /\ View.th = th /\ View.bug = bug
  BY DEF View
<1>1. ASSUME NEW t \in Tids, WaitMain(t)
      PROVE  Sound(View)' /\ Rest' /\ NoStaleStopme' /\ Waits'
  <2> DEFINE v == wait_main_one(View, t)
  <2>1. Sound(v) /\ \A u \in Tids : v.th[u].stopme => th[u].stopme
    BY <1>0, <1>01, <1>1, WaitMainSound DEF WaitMain, Waitable
  <2>2. Becomes(v) /\ pc = "loop" /\ bug = "none"
        /\ UNCHANGED <<tracing, pc, op, todo, cur, curt, cmds>>
    BY <1>1 DEF WaitMain, At
  <2> HIDE DEF v
  <2>3. Sound(View)'
    BY <2>1, <2>2, BecomesSound
  <2> QED BY <1>0, <2>1, <2>2, <2>3 DEF Becomes, Rest, NoStaleStopme, Waits
<1>2. ASSUME handle_STRT
      PROVE  Sound(View)' /\ Rest' /\ NoStaleStopme' /\ Waits'
  <2> DEFINE v == process_continue_all(View)
  <2>1. Sound(v) /\ \A u \in Tids : v.th[u].stopme => th[u].stopme
    BY <1>0, <1>01, ContinueAllSound
  <2>2. /\ pc = "loop" /\ bug = "none" /\ cmds < MaxCmds /\ cmds' = cmds + 1
        /\ UNCHANGED <<pc, op, todo, cur, curt>>
        /\ \/ UNCHANGED <<k, th, bug, tracing>>
           \/ Becomes(v) /\ tracing' = TRUE
    BY <1>2 DEF handle_STRT, Accept, At
  <2> HIDE DEF v
  <2>3. Rest'
    <3>1. tracing' \in BOOLEAN
      BY <1>0, <2>2 DEF Rest
    <3>2. cmds' \in 0..MaxCmds
      BY <1>0, <2>2, MaxCmdsAssumption DEF Rest
    <3> QED BY <1>0, <2>2, <3>1, <3>2 DEF Rest
  <2>4. CASE UNCHANGED <<k, th, bug, tracing>>
    BY <1>0, <2>2, <2>3, <2>4, SilentStep DEF NoStaleStopme, Waits, Sound, Views, View
  <2>5. CASE Becomes(v)
    <3>1. Sound(View)'
      BY <2>1, <2>5, BecomesSound
    <3> QED BY <1>0, <2>1, <2>2, <2>3, <2>5, <3>1 DEF Becomes, NoStaleStopme, Waits
  <2> QED BY <2>2, <2>4, <2>5
<1>3. ASSUME handle_STOP \/ handle_INJL \/ handle_INJU
      PROVE  Sound(View)' /\ Rest' /\ NoStaleStopme' /\ Waits'
  <2>1. PICK c \in Commands :
          /\ pc = "loop" /\ bug = "none" /\ cmds < MaxCmds /\ cmds' = cmds + 1
          /\ pc' \in {"any_running", "loop"} /\ op' \in {c, op}
          /\ UNCHANGED <<k, th, bug, tracing, todo, cur, curt>>
    BY <1>0, <1>3 DEF handle_STOP, handle_INJL, handle_INJU, StopFirst, Accept, At
  <2>2. Rest'
    BY <1>0, <2>1, MaxCmdsAssumption DEF Rest
  <2>3. Sound(View)'
    BY <1>0, <2>1, TasksOK, SilentStep
  <2> QED BY <1>0, <2>1, <2>2, <2>3 DEF NoStaleStopme, Waits
<1>4. ASSUME NEW p \in Tids, handle_DETC(p) \/ handle_KILL(p)
      PROVE  Sound(View)' /\ Rest' /\ NoStaleStopme' /\ Waits'
  <2>1. PICK c \in Commands :
          /\ pc = "loop" /\ bug = "none" /\ cmds < MaxCmds /\ cmds' = cmds + 1
          /\ pc' \in {"process_stop", "process_kill"} /\ op' = c /\ cur' = p
          /\ UNCHANGED <<k, th, bug, tracing, todo, curt>>
    BY <1>0, <1>4 DEF handle_DETC, handle_KILL, Accept, At
  <2>2. Rest'
    BY <1>0, <2>1, MaxCmdsAssumption DEF Rest
  <2>3. Sound(View)'
    BY <1>0, <2>1, TasksOK, SilentStep
  <2> QED BY <1>0, <2>1, <2>2, <2>3 DEF NoStaleStopme, Waits
<1>5. ASSUME process_any_running
      PROVE  Sound(View)' /\ Rest' /\ NoStaleStopme' /\ Waits'
  <2> DEFINE v == process_continue_all(View)
  <2>1. Sound(v) /\ \A u \in Tids : v.th[u].stopme => th[u].stopme
    BY <1>0, <1>01, ContinueAllSound
  <2>2. /\ pc = "any_running" /\ bug = "none" /\ UNCHANGED <<curt, cmds>>
        /\ cur' = NoTid /\ pc' \in {"stop_iter", "loop"} /\ op' \in {op, "none"}
        /\ todo' \in {Procs(View), {}} /\ tracing' \in {tracing, FALSE}
        /\ UNCHANGED <<k, th, bug>> \/ Becomes(v)
    BY <1>5 DEF process_any_running, At
  <2> HIDE DEF v
  <2>3. Rest'
    BY <1>0, <2>2, ProcsType DEF Rest
  <2>4. CASE UNCHANGED <<k, th, bug>>
    <3>1. Sound(View)'
      BY <1>0, <2>4, TasksOK, SilentStep
    <3> QED BY <1>0, <2>2, <2>3, <2>4, <3>1 DEF NoStaleStopme, Waits
  <2>5. CASE Becomes(v)
    <3>1. Sound(View)'
      BY <2>1, <2>5, BecomesSound
    <3> QED BY <1>0, <2>1, <2>2, <2>3, <2>5, <3>1 DEF Becomes, NoStaleStopme, Waits
  <2> QED BY <2>2, <2>4, <2>5
<1>6. ASSUME StopIter
      PROVE  Sound(View)' /\ Rest' /\ NoStaleStopme' /\ Waits'
  <2>1. /\ pc = "stop_iter" /\ bug = "none" /\ pc' \in {"any_running", "process_stop"}
        /\ cur' \in todo \cup {cur} /\ todo' \subseteq todo
        /\ UNCHANGED <<k, th, bug, tracing, op, curt, cmds>>
    BY <1>6 DEF StopIter, At
  <2>2. Sound(View)'
    BY <1>0, <2>1, TasksOK, SilentStep
  <2> QED BY <1>0, <2>1, <2>2 DEF Rest, NoStaleStopme, Waits
<1>7. ASSUME NEW t \in Tids, thread_stop(t)
      PROVE  Sound(View)' /\ Rest' /\ NoStaleStopme' /\ Waits'
  <2> DEFINE q == [k[t] EXCEPT !.pend = IF Live(k, t) THEN @ \cup {"STOP"} ELSE @]
             w == [th[t] EXCEPT !.stopme = TRUE]
  <2>0. k \in [Tids -> Task] /\ th \in [Tids -> Thread] /\ bug \in Bugs
        /\ k[t] \in Task /\ th[t] \in Thread
    BY <1>0, TasksOK
  <2>1. /\ pc = "process_stop" /\ bug = "none" /\ th[t].here /\ th[t].running
        /\ th' = [th EXCEPT ![t] = w] /\ curt' = t /\ pc' = "stop_wait"
        /\ UNCHANGED <<tracing, op, todo, cur, cmds>>
        /\ \/ bug' = "ptrace" /\ k' = k
           \/ bug' = bug /\ k' = [k EXCEPT ![t] = q]
    BY <1>7 DEF thread_stop, At, InProc, Running, View
  <2>2. q \in Task /\ q.st = k[t].st /\ q.ev = k[t].ev /\ q.child = k[t].child
    <3> DEFINE pe == IF Live(k, t) THEN k[t].pend \cup {"STOP"} ELSE k[t].pend
    <3>1. pe \in SUBSET Signals
      BY <2>0 DEF Task, Signals
    <3>2. q = [k[t] EXCEPT !.pend = pe]
      OBVIOUS
    <3> HIDE DEF pe, q
    <3> QED BY <2>0, <3>1, <3>2 DEF Task
  <2>3. w \in Thread /\ w.stopme /\ w.here /\ w.running /\ w.signo = th[t].signo
    BY <2>0, <2>1 DEF Thread
  <2> HIDE DEF q, w
  <2>4. ASSUME NEW b \in Bugs, NEW kk \in {k, [k EXCEPT ![t] = q]}
        PROVE  Sound([k |-> kk, th |-> [th EXCEPT ![t] = w], bug |-> b])
    BY <1>0, <2>0, <2>1, <2>2, <2>3 DEF Sound, Views, View
  <2>5. Sound(View)'
    <3>1. Becomes([k |-> k', th |-> [th EXCEPT ![t] = w], bug |-> bug'])
      BY <2>1 DEF Becomes
    <3>2. bug' \in Bugs /\ k' \in {k, [k EXCEPT ![t] = q]}
      BY <2>0, <2>1 DEF Bugs
    <3> QED BY <2>4, <3>1, <3>2, BecomesSound
  <2>6. \A u \in Tids : u # t => ~th'[u].stopme
    BY <1>0, <2>0, <2>1 DEF NoStaleStopme
  <2>7. th'[t].here
    BY <2>0, <2>1, <2>3
  <2> QED BY <1>0, <2>1, <2>5, <2>6, <2>7 DEF Rest, NoStaleStopme, Waits
<1>8. ASSUME StopWait \/ KillWait
      PROVE  Sound(View)' /\ Rest' /\ NoStaleStopme' /\ Waits'
  <2> DEFINE v == thread_wait(View, curt)
             b == IF v.bug = "none" /\ v.th[curt].running THEN "still_running" ELSE v.bug
  <2>1. /\ pc \in {"stop_wait", "kill_wait"} /\ bug = "none" /\ CanWait(View, curt)
    BY <1>8 DEF StopWait, KillWait, At
  <2>2. curt \in Tids /\ th[curt].here
    BY <1>0, <2>1 DEF Waits
  <2>3. Sound(v) /\ Settles(View, v, curt)
    BY <1>0, <1>01, <2>1, <2>2, WaitSound
  <2>4. v \in Views
    BY <2>3 DEF Sound
  <2>5. /\ k' = v.k /\ th' = v.th /\ bug' \in {v.bug, "still_running"}
        /\ \/ pc' = "process_stop" /\ curt' = NoTid
           \/ pc' = "kill_wait" /\ curt' = curt /\ v.th[curt].here
           \/ pc' = "process_kill" /\ curt' = NoTid
        /\ UNCHANGED <<tracing, op, todo, cur, cmds>>
    <3> HIDE DEF v
    <3>1. CASE StopWait
      <4>1. Becomes(IF v.bug = "none" /\ v.th[curt].running
                    THEN [v EXCEPT !.bug = "still_running"] ELSE v)
            /\ pc' = "process_stop" /\ curt' = NoTid
            /\ UNCHANGED <<tracing, op, todo, cur, cmds>>
        BY <3>1 DEF StopWait, v
      <4> QED BY <2>4, <4>1 DEF Becomes, Views
    <3>2. CASE KillWait
      <4>1. /\ Becomes(v) /\ UNCHANGED <<tracing, op, todo, cur, cmds>>
            /\ IF v.th[curt].here THEN UNCHANGED <<pc, curt>>
               ELSE pc' = "process_kill" /\ curt' = NoTid
            /\ pc = "kill_wait"
        BY <3>2 DEF KillWait, At, v
      <4> QED BY <4>1 DEF Becomes
    <3> QED BY <1>8, <3>1, <3>2
  <2> HIDE DEF v
  <2>6. Sound(View)'
    <3>1. bug' \in Bugs
      BY <2>4, <2>5 DEF Views, Bugs
    <3>2. Sound([k |-> v.k, th |-> v.th, bug |-> bug'])
      BY <2>3, <3>1 DEF Sound, Views
    <3>3. Becomes([k |-> v.k, th |-> v.th, bug |-> bug'])
      BY <2>5 DEF Becomes
    <3> QED BY <3>2, <3>3, BecomesSound
  <2>7. \A u \in Tids : bug' = "none" => ~th'[u].stopme
    BY <1>0, <1>01, <2>1, <2>3, <2>5 DEF Settles, NoStaleStopme
  <2>8. Rest'
    BY <1>0, <2>5 DEF Rest
  <2>9. Waits'
    BY <2>2, <2>5 DEF Waits
  <2> QED BY <2>6, <2>7, <2>8, <2>9 DEF NoStaleStopme
<1>9. ASSUME process_stabilize \/ KillDone
      PROVE  Sound(View)' /\ Rest' /\ NoStaleStopme' /\ Waits'
  <2>1. /\ pc \in {"process_stop", "process_kill"} /\ bug = "none"
        /\ bug' \in {bug, "ptrace"} /\ pc' \in {"detach", "stop_iter", "loop"}
        /\ op' \in {op, "none"} /\ cur' \in {cur, NoTid}
        /\ UNCHANGED <<k, th, tracing, todo, curt, cmds>>
    BY <1>9 DEF process_stabilize, KillDone, At
  <2>2. Sound(View)'
    BY <1>0, <2>1, TasksOK, SilentStep DEF Bugs
  <2> QED BY <1>0, <2>1, <2>2 DEF Rest, NoStaleStopme, Waits
<1>10. ASSUME process_detach
      PROVE  Sound(View)' /\ Rest' /\ NoStaleStopme' /\ Waits'
  <2> DEFINE P == InProc(View, cur)
             kk == [t \in Tids |-> IF t \in P THEN NoTask ELSE k[t]]
             tt == [t \in Tids |-> IF t \in P THEN NoThread ELSE th[t]]
  <2>0. k \in [Tids -> Task] /\ th \in [Tids -> Thread] /\ bug \in Bugs
    BY <1>0, TasksOK
  <2>1. /\ pc = "detach" /\ bug = "none" /\ pc' = "loop" /\ op' = "none" /\ cur' = NoTid
        /\ UNCHANGED <<tracing, todo, curt, cmds>>
        /\ \/ k' = kk /\ th' = tt /\ bug' = bug
           \/ k' = k /\ th' = th /\ bug' = "ptrace"
    BY <1>10 DEF process_detach, At
  <2> HIDE DEF P
  <2>2. /\ NoTask \in Task /\ NoThread \in Thread /\ NoTask.ev = "none"
        /\ ~NoThread.here /\ ~NoThread.stopme /\ NoThread.signo = "none"
    BY NoTaskType DEF NoTask, NoThread
  <2>3. CASE k' = kk /\ th' = tt /\ bug' = bug
    <3>1. /\ kk \in [Tids -> Task] /\ tt \in [Tids -> Thread]
          /\ \A t \in Tids : \/ kk[t] = NoTask /\ tt[t] = NoThread
                             \/ kk[t] = k[t] /\ tt[t] = th[t]
      BY <2>0, <2>2
    <3> HIDE DEF kk, tt
    <3>2. Sound([k |-> kk, th |-> tt, bug |-> bug])
      BY <1>0, <2>0, <2>2, <3>1 DEF Sound, Views, View
    <3>3. Sound(View)'
      <4>1. Becomes([k |-> kk, th |-> tt, bug |-> bug])
        BY <2>3 DEF Becomes
      <4> QED BY <3>2, <4>1, BecomesSound
    <3>4. \A t \in Tids : ~th'[t].stopme
      BY <1>0, <2>1, <2>2, <2>3, <3>1 DEF NoStaleStopme
    <3> QED BY <1>0, <2>1, <3>3, <3>4 DEF Rest, NoStaleStopme, Waits
  <2>4. CASE k' = k /\ th' = th /\ bug' = "ptrace"
    <3>1. Sound(View)'
      BY <2>4, SilentStep DEF Bugs
    <3> QED BY <1>0, <2>1, <2>4, <3>1 DEF Rest, NoStaleStopme, Waits
  <2> QED BY <2>1, <2>3, <2>4
<1>11. ASSUME NEW t \in Tids, thread_kill(t)
      PROVE  Sound(View)' /\ Rest' /\ NoStaleStopme' /\ Waits'
  <2> DEFINE kk == KillGroup(k, k[t].tgid)
             w == [th[t] EXCEPT !.stopme = FALSE]
             tt == [th EXCEPT ![t] = w]
  <2>0. k \in [Tids -> Task] /\ th \in [Tids -> Thread] /\ bug \in Bugs
        /\ \A u \in Tids : TaskOK(k[u], u)
    BY <1>0, TasksOK
  <2>1. /\ pc = "process_kill" /\ bug = "none" /\ th[t].here
        /\ th' = tt /\ curt' = t /\ pc' = "kill_wait"
        /\ UNCHANGED <<tracing, op, todo, cur, cmds>>
        /\ \/ bug' = "ptrace" /\ k' = k
           \/ bug' = bug /\ k' = kk
    BY <1>11 DEF thread_kill, At, InProc, View
  <2>2. /\ w \in Thread /\ ~w.stopme /\ w.here = th[t].here /\ w.running = th[t].running
        /\ w.signo = th[t].signo
    <3>1. th[t] \in Thread
      BY <2>0
    <3> QED BY <3>1 DEF Thread
  <2>3. kk \in [Tids -> Task] /\ \A u \in Tids : TaskOK(kk[u], u)
    <3>1. \A u \in Tids : TaskOK(Dead(k[u]), u) /\ Dead(k[u]) \in Task
      BY <2>0, DeadOK DEF TaskOK
    <3> QED BY <2>0, <3>1 DEF KillGroup
  <2> HIDE DEF kk, w
  <2>4. /\ tt \in [Tids -> Thread] /\ tt[t] = w
        /\ \A u \in Tids : u # t => tt[u] = th[u]
    BY <2>0, <2>2
  <2> HIDE DEF tt
  <2>5. Sound(View)'
    <3>1. bug' \in Bugs /\ k' \in {k, kk}
      BY <2>0, <2>1 DEF Bugs
    <3>2. \A q \in {k, kk} : Sound([k |-> q, th |-> tt, bug |-> bug'])
      BY <1>0, <2>0, <2>2, <2>3, <2>4, <3>1 DEF Sound, Views, View, TaskOK
    <3>3. Becomes([k |-> k', th |-> tt, bug |-> bug'])
      BY <2>1 DEF Becomes
    <3> QED BY <3>1, <3>2, <3>3, BecomesSound
  <2>6. (\A u \in Tids : ~th'[u].stopme) /\ th'[t].here
    BY <1>0, <2>1, <2>2, <2>4 DEF NoStaleStopme
  <2> QED BY <1>0, <2>1, <2>5, <2>6 DEF Rest, NoStaleStopme, Waits
<1>12. ASSUME NEW t \in Tids, Kernel(t)
      PROVE  Sound(View)' /\ Rest' /\ NoStaleStopme' /\ Waits'
  <2>1. Sound(View)' /\ th' = th /\ bug' = bug
    BY <1>0, <1>12, KernelSound
  <2>2. UNCHANGED <<tracing, pc, op, todo, cur, curt, cmds>>
    BY <1>12 DEF Kernel
  <2> QED BY <1>0, <2>1, <2>2 DEF Rest, NoStaleStopme, Waits
<1>13. CASE UNCHANGED vars
  <2>1. Sound(View)'
    BY <1>0, <1>13, TasksOK, SilentStep DEF vars
  <2> QED BY <1>0, <1>13, <2>1 DEF vars, Rest, NoStaleStopme, Waits
<1>14. CASE Command
  BY <1>2, <1>3, <1>4, <1>14 DEF Command
<1>15. CASE Server
  BY <1>5, <1>6, <1>7, <1>8, <1>9, <1>10, <1>11, <1>15 DEF Server
<1> QED BY <1>1, <1>12, <1>13, <1>14, <1>15 DEF Next

\* The invariant holds in every reachable state.
THEOREM Invariance == Spec => []Inv
<1>1. Init => Inv BY InitInv
<1>2. Inv /\ [Next]_vars => Inv' BY NextInv
<1> QED BY <1>1, <1>2, PTL DEF Spec

\* Every variable keeps its type, whatever the traced program does.
THEOREM TypeCorrect == Spec => []TypeOK
<1>1. Inv => TypeOK BY DEF Inv
<1> QED BY <1>1, Invariance, PTL

\* A thread with state.running = false does not run: the server can trust
\* its own flag when it decides that a process is stopped.
THEOREM Stopped == Spec => []StoppedStaysStopped
<1>1. Inv => StoppedStaysStopped
  BY DEF Inv, Sound, View, StoppedStaysStopped
<1> QED BY <1>1, Invariance, PTL

\* stopme is only set while thread_stop waits for that thread.
THEOREM Stopme == Spec => []NoStaleStopme
<1>1. Inv => NoStaleStopme BY DEF Inv
<1> QED BY <1>1, Invariance, PTL

\* A held signal belongs to a known, stopped thread.
THEOREM Held == Spec => []HeldWhileStopped
<1>1. Inv => HeldWhileStopped
  BY DEF Inv, Sound, View, HeldWhileStopped
<1> QED BY <1>1, Invariance, PTL

------------------------------------------------------------------------------
(* While no thread dies behind the server's back                            *)

\* Threads come and go one by one, and nothing is killed.
Orderly ==
    /\ Env \subseteq {"signal", "clone", "fork", "exit"}
    /\ Commands \subseteq {"STRT", "STOP", "INJL", "INJU", "DETC"}

\* r is the task q, up to pending stops and ptrace options.
Alike(q, r) ==
    /\ r.st = q.st /\ r.ev = q.ev
    /\ r.tgid = q.tgid /\ r.ppid = q.ppid /\ r.child = q.child
    /\ r.sent = q.sent /\ r.got = q.got
    /\ Handlers \/ ("USR" \in r.pend <=> "USR" \in q.pend)

\* r is the task q after PTRACE_CONT with the signal sig.
Resumed(q, r, sig) ==
    /\ r.st = "run" /\ r.ev = "none"
    /\ r.tgid = q.tgid /\ r.ppid = q.ppid /\ r.child = q.child
    /\ r.sent = q.sent
    /\ r.got = IF q.st = "stop" /\ sig = "USR" THEN q.got + 1 ELSE q.got
    /\ Handlers \/ ("USR" \in r.pend <=> "USR" \in q.pend)

\* v is the thread_t w, up to the mark that its handlers were called.
SameThread(w, v) ==
    /\ v.here = w.here /\ v.proc = w.proc /\ v.running = w.running
    /\ v.stopme = w.stopme /\ v.signo = w.signo
    /\ w.notified => v.notified

\* PTRACE_CONT resumes one task and leaves the others as they are.
LEMMA PtraceContShape ==
  ASSUME NEW kk \in [Tids -> Task], NEW t \in Tids, NEW sig
  PROVE  \A u \in Tids : IF u = t THEN Resumed(kk[t], PtraceCont(kk, t, sig)[t], sig)
                         ELSE Alike(kk[u], PtraceCont(kk, t, sig)[u])
<1> DEFINE deliver == kk[t].st = "stop"
           g == IF deliver /\ sig = "USR" THEN kk[t].got + 1 ELSE kk[t].got
           w == [kk[t] EXCEPT !.st = "run", !.ev = "none", !.got = g]
           woken == [kk EXCEPT ![t] = w]
           z(u) == [woken[u] EXCEPT !.pend = @ \cup {"GSTOP"}]
<1>1. PtraceCont(kk, t, sig) =
        [u \in Tids |->
            IF deliver /\ sig = "STOP" /\ kk[u].tgid = kk[t].tgid /\ Live(kk, u)
            THEN z(u) ELSE woken[u]]
  <2>1. woken = [kk EXCEPT ![t].st = "run", ![t].ev = "none",
                       ![t].got = IF deliver /\ sig = "USR" THEN @ + 1 ELSE @]
    OBVIOUS
  <2> HIDE DEF woken, g, w
  <2> QED BY <2>1 DEF PtraceCont
<1>2. g \in Nat
  BY DEF Task
<1>3. Resumed(kk[t], w, sig) /\ w \in Task
  <2> HIDE DEF g
  <2>1. /\ w \in Task /\ w.st = "run" /\ w.ev = "none" /\ w.tgid = kk[t].tgid
        /\ w.ppid = kk[t].ppid /\ w.child = kk[t].child /\ w.sent = kk[t].sent
        /\ w.got = g /\ w.pend = kk[t].pend
    BY <1>2 DEF Task, TaskStates, Events
  <2> HIDE DEF w
  <2> QED BY <2>1 DEF Resumed, g
<1>4. \A u \in Tids : IF u = t THEN Resumed(kk[t], woken[u], sig) ELSE Alike(kk[u], woken[u])
  <2> HIDE DEF w
  <2> QED BY <1>3 DEF Alike
<1>5. woken \in [Tids -> Task]
  BY <1>3
<1> HIDE DEF woken, deliver, g, w
<1>6. \A u \in Tids : Alike(woken[u], z(u))
  BY <1>5 DEF Alike, Task
<1> HIDE DEF z
<1>7. \A u \in Tids : \A x \in {woken[u], z(u)} :
        IF u = t THEN Resumed(kk[t], x, sig) ELSE Alike(kk[u], x)
  <2> SUFFICES ASSUME NEW u \in Tids, NEW x \in {woken[u], z(u)}
               PROVE  IF u = t THEN Resumed(kk[t], x, sig) ELSE Alike(kk[u], x)
    OBVIOUS
  <2>1. x = woken[u] \/ Alike(woken[u], x)
    BY <1>6
  <2> HIDE DEF woken
  <2> QED BY <1>4, <2>1 DEF Alike, Resumed
<1> QED BY <1>1, <1>7

\* The NEW_THREAD and NEW_PROCESS handlers change nothing but the mark that
\* they were called, and what fncall_call does to pending signals.
LEMMA NotifyShape ==
  ASSUME NEW s, Sound(s), s.bug = "none", NEW t \in Tids,
         NEW n, n = injection_notify_new_thread(s, t)
  PROVE  \/ n.bug = "new_process" /\ s.th[t].proc = t /\ InProc(s, t) # {t}
         \/ /\ n.bug = "none"
            /\ \A u \in Tids : u # t => n.th[u] = s.th[u]
            /\ SameThread(s.th[t], n.th[t])
            /\ \A u \in Tids : Alike(s.k[u], n.k[u])
<1> DEFINE nt == [s.th EXCEPT ![t].notified = TRUE]
           pe == IF Handlers THEN SlaveCallPending(s.k[t].pend) ELSE s.k[t].pend
           w == [s.k[t] EXCEPT !.pend = pe]
           nk == [s.k EXCEPT ![t] = w]
<1>0. s \in Views BY DEF Sound
<1>1. CASE s.th[t].proc = t /\ InProc(s, t) # {t}
  BY <1>0, <1>1 DEF injection_notify_new_thread, Views
<1>2. CASE ~(s.th[t].proc = t /\ InProc(s, t) # {t})
  <2>1. n = [k |-> nk, th |-> nt, bug |-> s.bug]
    BY <1>0, <1>2 DEF injection_notify_new_thread, Views
  <2>2. Alike(s.k[t], w)
    <3>1. ~Handlers => pe = s.k[t].pend
      OBVIOUS
    <3> HIDE DEF pe
    <3> QED BY <1>0, <3>1 DEF Alike, Views, Task
  <2> HIDE DEF w
  <2>3. \A u \in Tids : Alike(s.k[u], nk[u])
    BY <1>0, <2>2 DEF Views, Alike
  <2>4. /\ \A u \in Tids : u # t => nt[u] = s.th[u]
        /\ SameThread(s.th[t], nt[t])
    <3> DEFINE nn == [s.th[t] EXCEPT !.notified = TRUE]
    <3>1. SameThread(s.th[t], nn)
      BY <1>0 DEF SameThread, Views, Thread
    <3>2. nt[t] = nn /\ \A u \in Tids : u # t => nt[u] = s.th[u]
      BY <1>0 DEF Views
    <3> HIDE DEF nn, nt
    <3> QED BY <3>1, <3>2
  <2> HIDE DEF nk, nt
  <2> QED BY <2>1, <2>3, <2>4
<1> QED BY <1>1, <1>2

\* thread_continue_or_stop for a stopped thread whose status has been taken:
\* it stays stopped, with its signal held, if it was asked to; otherwise it
\* is resumed.
LEMMA ContinueOrStopShape ==
  ASSUME NEW s, Sound(s), s.bug = "none", NEW t \in Tids,
         NEW signo \in {"none", "USR", "STOP"}, signo # "none" => s.th[t].signo = "none",
         s.th[t].here, ~s.th[t].running, s.k[t].st \in {"stop", "gstop"},
         NEW r, r = thread_continue_or_stop(s, t, signo)
  PROVE  \/ /\ r.bug = "new_process" /\ ~s.th[t].notified
            /\ s.th[t].proc = t /\ InProc(s, t) # {t}
         \/ /\ r.bug = "none"
            /\ \A u \in Tids : u # t => r.th[u] = s.th[u] /\ Alike(s.k[u], r.k[u])
            /\ r.th[t].here /\ r.th[t].proc = s.th[t].proc
            /\ s.th[t].notified => r.th[t].notified
            /\ s.th[t].stopme => /\ r.k = s.k /\ ~r.th[t].running
                                 /\ r.th[t].signo = IF signo = "STOP" THEN "none" ELSE signo
            /\ ~s.th[t].stopme =>
                /\ Resumed(s.k[t], r.k[t], IF signo = "none" THEN s.th[t].signo ELSE signo)
                /\ r.th[t].running
<1>0. s \in Views /\ s.k \in [Tids -> Task] /\ s.th \in [Tids -> Thread] /\ s.th[t] \in Thread
  BY DEF Sound, Views
<1>1. CASE s.th[t].stopme
  <2> DEFINE g == IF signo = "STOP" THEN "none" ELSE signo
             w == [s.th[t] EXCEPT !.signo = g, !.stopme = FALSE]
             nt == [s.th EXCEPT ![t] = w]
  <2>1. r = [s EXCEPT !.th = nt]
    BY <1>0, <1>1 DEF thread_continue_or_stop, Views
  <2> HIDE DEF g
  <2>2. /\ w.here = s.th[t].here /\ w.running = s.th[t].running /\ w.proc = s.th[t].proc
        /\ w.notified = s.th[t].notified /\ w.signo = g
    BY <1>0 DEF Thread
  <2> HIDE DEF w
  <2>3. nt[t] = w /\ \A u \in Tids : u # t => nt[u] = s.th[u]
    BY <1>0
  <2> HIDE DEF nt
  <2>4. r.th = nt /\ r.k = s.k /\ r.bug = s.bug
    BY <1>0, <2>1 DEF Views
  <2>5. \A u \in Tids : Alike(s.k[u], r.k[u])
    BY <2>4 DEF Alike
  <2> QED BY <1>1, <2>2, <2>3, <2>4, <2>5 DEF g
<1>2. CASE ~s.th[t].stopme
  <2> DEFINE n == IF s.th[t].notified THEN s ELSE injection_notify_new_thread(s, t)
             sig == IF signo = "none" THEN s.th[t].signo ELSE signo
  <2>1. r = IF n.bug # "none" THEN n ELSE thread_continue(n, t, signo)
    BY <1>2 DEF thread_continue_or_stop
  <2>2. Sound(n)
    BY NotifySound
  <2>3. \/ n.bug = "new_process" /\ ~s.th[t].notified /\ s.th[t].proc = t /\ InProc(s, t) # {t}
        \/ /\ n.bug = "none"
           /\ \A u \in Tids : u # t => n.th[u] = s.th[u]
           /\ SameThread(s.th[t], n.th[t])
           /\ \A u \in Tids : Alike(s.k[u], n.k[u])
    <3>1. CASE s.th[t].notified
      BY <3>1 DEF Alike, SameThread
    <3>2. CASE ~s.th[t].notified
      <4>1. n = injection_notify_new_thread(s, t)
        BY <3>2
      <4> HIDE DEF n
      <4> QED BY <3>2, <4>1, NotifyShape
    <3> QED BY <3>1, <3>2
  <2> HIDE DEF n
  <2>4. CASE /\ n.bug = "none"
             /\ \A u \in Tids : u # t => n.th[u] = s.th[u]
             /\ SameThread(s.th[t], n.th[t])
             /\ \A u \in Tids : Alike(s.k[u], n.k[u])
    <3> DEFINE g == IF signo = "none" THEN "none" ELSE n.th[t].signo
               w == [n.th[t] EXCEPT !.running = TRUE, !.setoptions = FALSE, !.signo = g]
               op1 == n.k[t].opts \/ n.th[t].setoptions
               q == [n.k[t] EXCEPT !.opts = op1]
               opt == [n.k EXCEPT ![t] = q]
               nt == [n.th EXCEPT ![t] = w]
               kk == PtraceCont(opt, t, sig)
    <3>0. n \in Views /\ n.k \in [Tids -> Task] /\ n.th \in [Tids -> Thread]
          /\ n.k[t] \in Task /\ n.th[t] \in Thread
      BY <2>2 DEF Sound, Views
    <3>1. /\ n.th[t].here /\ ~n.th[t].running /\ n.th[t].signo = s.th[t].signo
          /\ n.th[t].proc = s.th[t].proc /\ (s.th[t].notified => n.th[t].notified)
      BY <2>4 DEF SameThread
    <3>2. Traceable(n, t)
      BY <2>4 DEF Traceable, Alike
    <3>3. r = [k |-> kk, th |-> nt, bug |-> n.bug]
      <4> DEFINE opt2 == [n.k EXCEPT ![t].opts = @ \/ n.th[t].setoptions]
                 nt2 == [n.th EXCEPT ![t].running = TRUE, ![t].setoptions = FALSE,
                                     ![t].signo = IF signo = "none" THEN "none" ELSE @]
                 sig2 == IF signo = "none" THEN n.th[t].signo ELSE signo
      <4>1. thread_continue(n, t, signo) =
              [k |-> PtraceCont(opt2, t, sig2), th |-> nt2, bug |-> n.bug]
        BY <3>0, <3>1, <3>2 DEF thread_continue, Views
      <4>2. opt2 = opt
        BY <3>0
      <4>3. nt2 = nt
        BY <3>0
      <4>4. sig2 = sig
        BY <3>1
      <4> HIDE DEF opt, opt2, nt, nt2, sig, sig2
      <4> QED BY <2>1, <2>4, <4>1, <4>2, <4>3, <4>4
    <3>4. op1 \in BOOLEAN /\ g \in {"none", "USR"}
      BY <3>0 DEF Task, Thread
    <3> HIDE DEF op1, sig, g
    <3>5. q \in Task /\ Alike(n.k[t], q)
      BY <3>0, <3>4 DEF Task, Alike
    <3> HIDE DEF q
    <3>6. opt \in [Tids -> Task] /\ \A u \in Tids : Alike(n.k[u], opt[u])
      BY <3>0, <3>5 DEF Alike
    <3> HIDE DEF opt
    <3>7. \A u \in Tids : IF u = t THEN Resumed(opt[t], kk[t], sig) ELSE Alike(opt[u], kk[u])
      BY <3>6, PtraceContShape
    <3> HIDE DEF kk
    <3>8. /\ Resumed(s.k[t], kk[t], sig)
          /\ \A u \in Tids : u # t => Alike(s.k[u], kk[u])
      BY <2>4, <3>6, <3>7 DEF Alike, Resumed
    <3>9. w.here = n.th[t].here /\ w.running /\ w.proc = n.th[t].proc /\ w.notified = n.th[t].notified
      BY <3>0, <3>4 DEF Thread
    <3> HIDE DEF w
    <3>10. nt[t] = w /\ \A u \in Tids : u # t => nt[u] = n.th[u]
      BY <3>0
    <3> HIDE DEF nt
    <3>11. r.k = kk /\ r.th = nt /\ r.bug = n.bug
      BY <3>3
    <3> QED BY <1>2, <2>4, <3>1, <3>8, <3>9, <3>10, <3>11 DEF sig
  <2>5. CASE n.bug = "new_process"
    BY <2>1, <2>3, <2>5
  <2> QED BY <2>3, <2>4, <2>5
<1> QED BY <1>1, <1>2

\* r is the task q after waitpid took its status.
Reaped(q, r) ==
    /\ r.st = q.st /\ r.ev = "none"
    /\ r.tgid = q.tgid /\ r.ppid = q.ppid /\ r.child = q.child
    /\ r.sent = q.sent /\ r.got = q.got /\ r.pend = q.pend

\* The views between waitpid and the part of thread_handle_status that
\* depends on the event.
Taken(s, t) == [Reap(s, t) EXCEPT !.th = [@ EXCEPT ![t].running = FALSE]]
Marked(s, t) == [Taken(s, t) EXCEPT !.th = [@ EXCEPT ![t].setoptions = TRUE]]

\* x is the views s without the status of t, which now counts as stopped.
TookStatus(s, x, t) ==
    /\ Sound(x) /\ x.bug = s.bug
    /\ \A u \in Tids : u # t => x.k[u] = s.k[u] /\ x.th[u] = s.th[u]
    /\ ~x.th[t].running /\ x.th[t].here /\ x.th[t].proc = s.th[t].proc
    /\ x.th[t].stopme = s.th[t].stopme /\ x.th[t].signo = s.th[t].signo
    /\ x.th[t].notified = s.th[t].notified
    /\ s.k[t].ev = "EXIT" => x.k[t] = NoTask
    /\ s.k[t].ev # "EXIT" => Reaped(s.k[t], x.k[t])

\* Taking a status changes one task and one thread_t.
LEMMA TakenShape ==
  ASSUME NEW s, Sound(s), NEW t \in Tids, s.th[t].here, s.k[t].ev # "none",
         NEW x \in {Taken(s, t), Marked(s, t)}
  PROVE  TookStatus(s, x, t)
<1> DEFINE w == [s.th[t] EXCEPT !.running = FALSE]
           v == [w EXCEPT !.setoptions = TRUE]
           q == IF s.k[t].ev = "EXIT" THEN NoTask ELSE [s.k[t] EXCEPT !.ev = "none"]
           z == Reap(s, t)
           nt == [s.th EXCEPT ![t] = w]
           mt == [s.th EXCEPT ![t] = v]
           nk == [s.k EXCEPT ![t] = q]
<1>0. s \in Views /\ s.th \in [Tids -> Thread] /\ s.k \in [Tids -> Task]
      /\ s.th[t] \in Thread /\ s.k[t] \in Task
  BY DEF Sound, Views
<1>1. /\ w \in Thread /\ ~w.running /\ w.here /\ w.stopme = s.th[t].stopme
      /\ w.signo = s.th[t].signo /\ w.proc = s.th[t].proc /\ w.notified = s.th[t].notified
      /\ v \in Thread /\ ~v.running /\ v.here /\ v.stopme = s.th[t].stopme
      /\ v.signo = s.th[t].signo /\ v.proc = s.th[t].proc /\ v.notified = s.th[t].notified
  BY <1>0 DEF Thread
<1>2. /\ q \in Task /\ q.ev = "none" /\ q.st \in {"stop", "gstop", "zombie", "none"}
      /\ s.k[t].ev = "EXIT" => q = NoTask
      /\ s.k[t].ev # "EXIT" => Reaped(s.k[t], q)
  BY <1>0, NoTaskType DEF Sound, Task, Events, NoTask, Reaped
<1>3. z = [k |-> nk, th |-> s.th, bug |-> s.bug]
  BY <1>0 DEF Reap, Views
<1>4. Taken(s, t) = [k |-> nk, th |-> nt, bug |-> s.bug]
  <2>1. [z.th EXCEPT ![t].running = FALSE] = nt
    BY <1>0, <1>3
  <2> DEFINE tt == [z.th EXCEPT ![t].running = FALSE]
  <2>2. Taken(s, t) = [z EXCEPT !.th = tt]
    BY DEF Taken
  <2> HIDE DEF z, nk, nt, tt
  <2>3. Taken(s, t) = [k |-> nk, th |-> tt, bug |-> s.bug]
    BY <1>3, <2>2
  <2> QED BY <2>1, <2>3 DEF tt
<1>5. Marked(s, t) = [k |-> nk, th |-> mt, bug |-> s.bug]
  <2> DEFINE y == Taken(s, t)
             tt == [y.th EXCEPT ![t].setoptions = TRUE]
  <2>0. y.th = nt
    BY <1>4
  <2>1. tt = mt
    <3> HIDE DEF y
    <3> QED BY <1>0, <2>0
  <2>2. Marked(s, t) = [y EXCEPT !.th = tt]
    BY DEF Marked
  <2> HIDE DEF y, nk, mt, tt
  <2>3. Marked(s, t) = [k |-> nk, th |-> tt, bug |-> s.bug]
    BY <1>4, <2>2 DEF y
  <2> QED BY <2>1, <2>3
<1> HIDE DEF w, v, q
<1>6. /\ nt[t] = w /\ mt[t] = v /\ nk[t] = q
      /\ nt \in [Tids -> Thread] /\ mt \in [Tids -> Thread] /\ nk \in [Tids -> Task]
      /\ \A u \in Tids : u # t => nt[u] = s.th[u] /\ mt[u] = s.th[u] /\ nk[u] = s.k[u]
  BY <1>0, <1>1, <1>2
<1> HIDE DEF nt, mt, nk
<1>7. ASSUME NEW tt \in {nt, mt}, x = [k |-> nk, th |-> tt, bug |-> s.bug]
      PROVE  Sound(x)
  BY <1>0, <1>1, <1>2, <1>6, <1>7 DEF Sound, Views
<1>8. Sound(x)
  BY <1>4, <1>5, <1>7
<1>9. x.k = nk /\ x.bug = s.bug /\ x.th \in {nt, mt}
  BY <1>4, <1>5
<1> QED BY <1>1, <1>2, <1>6, <1>8, <1>9 DEF TookStatus

\* w is the thread_t of a task that was unknown: it belongs to the process
\* of its thread group, or is the first thread of a new process whose parent
\* is known.
Adopted(s, u, w) ==
    /\ w \in Thread /\ w.here /\ ~w.stopme /\ w.signo = "none"
    /\ \E x \in Tids : s.th[x].here /\ s.th[x].proc \in {s.k[u].tgid, s.k[u].ppid}
    /\ w.proc = IF \E x \in Tids : s.th[x].here /\ s.th[x].proc = s.k[u].tgid
                THEN s.k[u].tgid ELSE u

\* thread_clone_create_child adopts the new thread, unless no process of the
\* list can be its own or its parent.
LEMMA AdoptShape ==
  ASSUME NEW s \in Views, NEW c \in Tids, NEW n, n = thread_clone_create_child(s, c)
  PROVE  \/ /\ n = [s EXCEPT !.bug = "no_parent"]
            /\ \A x \in Tids : s.th[x].here => s.th[x].proc # s.k[c].tgid
         \/ \E w \in Thread :
              /\ n = [s EXCEPT !.th = [s.th EXCEPT ![c] = w]]
              /\ Adopted(s, c, w) /\ ~w.running /\ ~w.notified
<1> DEFINE w(p) == [here |-> TRUE, proc |-> p, running |-> FALSE,
                    stopme |-> FALSE, signo |-> "none",
                    setoptions |-> TRUE, notified |-> FALSE]
           tg == s.k[c].tgid
           pp == s.k[c].ppid
<1>1. \A p \in Tids \cup {NoTid} :
        /\ w(p) \in Thread /\ w(p).here /\ ~w(p).running /\ ~w(p).stopme
        /\ w(p).signo = "none" /\ w(p).proc = p /\ ~w(p).notified
  BY DEF Thread
<1>2. \A p : thread_create(s, c, p) = [s EXCEPT !.th = [s.th EXCEPT ![c] = w(p)]]
  BY DEF thread_create, Views
<1>3. tg \in Tids \cup {NoTid}
  BY DEF Views, Task
<1>4. \A p : p \in Procs(s) <=> \E x \in Tids : s.th[x].here /\ s.th[x].proc = p
  BY DEF Procs
<1> HIDE DEF w
<1>5. CASE tg \in Procs(s)
  <2>1. n = thread_create(s, c, tg)
    BY <1>5 DEF thread_clone_create_child
  <2>2. w(tg) \in Thread /\ Adopted(s, c, w(tg)) /\ ~w(tg).running /\ ~w(tg).notified
    BY <1>1, <1>3, <1>4, <1>5 DEF Adopted
  <2> QED BY <1>2, <2>1, <2>2
<1>6. CASE tg \notin Procs(s) /\ pp \in Procs(s) /\ \E u \in Group(s.k, pp) : Live(s.k, u)
  <2>1. n = thread_create(s, c, c)
    BY <1>6 DEF thread_clone_create_child
  <2>2. w(c) \in Thread /\ Adopted(s, c, w(c)) /\ ~w(c).running /\ ~w(c).notified
    BY <1>1, <1>4, <1>6 DEF Adopted
  <2> QED BY <1>2, <2>1, <2>2
<1>7. CASE tg \notin Procs(s) /\ ~(pp \in Procs(s) /\ \E u \in Group(s.k, pp) : Live(s.k, u))
  <2>1. n = [s EXCEPT !.bug = "no_parent"]
    BY <1>7 DEF thread_clone_create_child
  <2> QED BY <1>4, <1>7, <2>1
<1> QED BY <1>5, <1>6, <1>7

\* u was unknown, and its thread_t is now w, taken to run.
New(s, u, w) == ~s.th[u].here /\ Adopted(s, u, w) /\ w.running

\* h is what the handler of a known thread's status leaves of the views s.
Handled(s, h, t) ==
    /\ h.bug = "none"
    /\ \A u \in Tids : u # t =>
        /\ Alike(s.k[u], h.k[u])
        /\ h.th[u] = s.th[u] \/ New(s, u, h.th[u])
    /\ s.k[t].ev = "EXIT" => h.k[t] = NoTask /\ h.th[t] = NoThread
    /\ s.k[t].ev # "EXIT" =>
        /\ h.th[t].here /\ h.th[t].proc = s.th[t].proc
        /\ s.th[t].notified => h.th[t].notified
        /\ s.th[t].stopme => /\ Reaped(s.k[t], h.k[t]) /\ ~h.th[t].running
                             /\ h.th[t].signo = "USR" => s.k[t].ev = "USR"
                             /\ s.k[t].ev = "USR" => h.th[t].signo = "USR"
        /\ ~s.th[t].stopme => Resumed(s.k[t], h.k[t], s.k[t].ev) /\ h.th[t].running
    /\ s.k[t].ev = "CLONE" => h.th[s.k[t].child].here

\* Why the handler of a known thread's status may abort.
Aborted(s, h, t) ==
    \/ /\ h.bug = "new_process" /\ ~s.th[t].notified /\ s.th[t].proc = t
    \/ /\ h.bug = "no_parent" /\ s.k[t].ev = "CLONE" /\ ~s.th[s.k[t].child].here
       /\ \A x \in Tids : s.th[x].here => s.th[x].proc # s.k[s.k[t].child].tgid

\* The views e after a status was taken from s, continued or stopped.
LEMMA TakenHandled ==
  ASSUME NEW s, Sound(s), s.bug = "none", NEW t \in Tids, s.th[t].here,
         s.k[t].ev \notin {"none", "EXEC", "EXIT"}, s.k[t].st \in {"stop", "gstop"},
         s.th[t].signo = "none",
         NEW e, Sound(e), e.bug = "none",
         \A u \in Tids : u # t =>
            /\ Alike(s.k[u], e.k[u])
            /\ e.th[u] = s.th[u] \/ New(s, u, e.th[u]),
         e.th[t].here, ~e.th[t].running, e.th[t].proc = s.th[t].proc,
         e.th[t].stopme = s.th[t].stopme, e.th[t].signo = "none",
         e.th[t].notified = s.th[t].notified, Reaped(s.k[t], e.k[t]),
         s.k[t].ev = "CLONE" => s.k[t].child \in Tids /\ e.th[s.k[t].child].here,
         NEW signo \in {"none", "USR", "STOP"},
         signo = "USR" <=> s.k[t].ev = "USR",
         NEW h, h = thread_continue_or_stop(e, t, signo)
  PROVE  Handled(s, h, t) \/ Aborted(s, h, t)
<1>1. e.k[t].st \in {"stop", "gstop"}
  BY DEF Reaped
<1> DEFINE sig == IF signo = "none" THEN e.th[t].signo ELSE signo
<1>2. \/ /\ h.bug = "new_process" /\ ~e.th[t].notified
         /\ e.th[t].proc = t /\ InProc(e, t) # {t}
      \/ /\ h.bug = "none"
         /\ \A u \in Tids : u # t => h.th[u] = e.th[u] /\ Alike(e.k[u], h.k[u])
         /\ h.th[t].here /\ h.th[t].proc = e.th[t].proc
         /\ e.th[t].notified => h.th[t].notified
         /\ e.th[t].stopme => /\ h.k = e.k /\ ~h.th[t].running
                              /\ h.th[t].signo = IF signo = "STOP" THEN "none" ELSE signo
         /\ ~e.th[t].stopme => Resumed(e.k[t], h.k[t], sig) /\ h.th[t].running
  BY <1>1, ContinueOrStopShape
<1>3. sig = "USR" <=> s.k[t].ev = "USR"
  OBVIOUS
<1> HIDE DEF sig
<1>4. CASE h.bug = "none"
  <2>1. /\ \A u \in Tids : u # t => h.th[u] = e.th[u] /\ Alike(e.k[u], h.k[u])
        /\ h.th[t].here /\ h.th[t].proc = e.th[t].proc
        /\ e.th[t].notified => h.th[t].notified
        /\ e.th[t].stopme => /\ h.k = e.k /\ ~h.th[t].running
                             /\ h.th[t].signo = IF signo = "STOP" THEN "none" ELSE signo
        /\ ~e.th[t].stopme => Resumed(e.k[t], h.k[t], sig) /\ h.th[t].running
    BY <1>2, <1>4
  <2>2. \A u \in Tids : u # t => Alike(s.k[u], h.k[u])
    BY <2>1 DEF Alike
  <2>3. \A u \in Tids : u # t =>
            h.th[u] = s.th[u] \/ New(s, u, h.th[u])
    BY <2>1
  <2>4. ~s.th[t].stopme => Resumed(s.k[t], h.k[t], s.k[t].ev) /\ h.th[t].running
    BY <1>3, <2>1 DEF Resumed, Reaped
  <2>5. s.th[t].stopme => /\ Reaped(s.k[t], h.k[t]) /\ ~h.th[t].running
                          /\ h.th[t].signo = "USR" => s.k[t].ev = "USR"
                          /\ s.k[t].ev = "USR" => h.th[t].signo = "USR"
    BY <2>1
  <2>6. s.k[t].ev = "CLONE" => h.th[s.k[t].child].here
    BY <2>1
  <2> QED BY <1>4, <2>1, <2>2, <2>3, <2>4, <2>5, <2>6 DEF Handled
<1>5. CASE h.bug # "none"
  BY <1>2, <1>5 DEF Aborted
<1> QED BY <1>4, <1>5

\* A status of a known thread is handled, or the server aborts for one of two
\* reasons.
LEMMA StatusShape ==
  ASSUME NEW s, Sound(s), s.bug = "none", NEW t \in Tids, s.th[t].here,
         s.k[t].ev \notin {"none", "EXEC"},
         s.k[t].ev # "EXIT" => s.k[t].st \in {"stop", "gstop"}, s.th[t].signo = "none",
         NEW h, h = thread_handle_status(s, t)
  PROVE  Handled(s, h, t) \/ Aborted(s, h, t)
<1> DEFINE ev == s.k[t].ev
           r == Taken(s, t)
           e == Marked(s, t)
<1>0. s \in Views /\ s.th[t] \in Thread /\ s.k[t] \in Task
      /\ s.k \in [Tids -> Task] /\ s.th \in [Tids -> Thread]
  BY DEF Sound, Views
<1>1. TookStatus(s, r, t) /\ TookStatus(s, e, t)
  BY TakenShape
<1>2. CASE ev = "EXIT"
  <2>1. h = thread_exit(r, t)
    BY <1>2 DEF thread_handle_status, Taken
  <2> HIDE DEF r, e
  <2>2. /\ r.th \in [Tids -> Thread] /\ r \in Views
    BY <1>1 DEF Sound, Views, TookStatus
  <2>3. h = [r EXCEPT !.th = [r.th EXCEPT ![t] = NoThread]]
    BY <2>1, <2>2 DEF thread_exit
  <2>4. /\ h.k = r.k /\ h.bug = r.bug /\ h.th[t] = NoThread
        /\ \A u \in Tids : u # t => h.th[u] = r.th[u]
    BY <2>2, <2>3 DEF Views
  <2>5. \A u \in Tids : u # t => Alike(s.k[u], h.k[u])
    BY <1>1, <2>4 DEF Alike, TookStatus
  <2>6. h.k[t] = NoTask /\ h.bug = "none"
    BY <1>1, <1>2, <2>4 DEF TookStatus
  <2>7. \A u \in Tids : u # t => h.th[u] = s.th[u]
    BY <1>1, <2>4 DEF TookStatus
  <2>8. s.k[t].ev = "EXIT" /\ h.th[t] = NoThread
    BY <1>2, <2>4
  <2> QED BY <2>5, <2>6, <2>7, <2>8 DEF Handled
<1>3. CASE ev \in {"STOP", "GSTOP", "USR"}
  <2> DEFINE sig == IF ev = "USR" THEN "USR" ELSE "STOP"
  <2>1. h = thread_continue_or_stop(r, t, sig)
    BY <1>3 DEF thread_handle_status, Taken
  <2> HIDE DEF r, e
  <2>2. \A u \in Tids : u # t => Alike(s.k[u], r.k[u]) /\ r.th[u] = s.th[u]
    BY <1>1 DEF Alike, TookStatus
  <2>3. sig \in {"none", "USR", "STOP"} /\ (sig = "USR" <=> ev = "USR")
    BY <1>3
  <2> HIDE DEF sig
  <2> QED BY <1>1, <1>3, <2>1, <2>2, <2>3, TakenHandled DEF TookStatus
<1>4. CASE ev = "CLONE"
  <2> DEFINE c == s.k[t].child
             n == thread_clone_create_child(e, c)
             f == IF e.th[c].here THEN e ELSE [n EXCEPT !.th[c].running = TRUE]
  <2>1. h = IF f.bug # "none" THEN f ELSE thread_continue_or_stop(f, t, "none")
    <3>1. h = thread_handle_clone_parent(e, t, c)
      BY <1>4 DEF thread_handle_status, Taken, Marked
    <3> QED BY <3>1 DEF thread_handle_clone_parent
  <2>2. c \in Tids
    BY <1>4 DEF Sound
  <2> HIDE DEF r, e, c
  <2>3. CASE e.th[c].here
    <3>1. f = e
      BY <2>3
    <3>2. \A u \in Tids : u # t => Alike(s.k[u], e.k[u]) /\ e.th[u] = s.th[u]
      BY <1>1 DEF Alike, TookStatus
    <3>3. h = thread_continue_or_stop(e, t, "none")
      BY <1>1, <2>1, <3>1 DEF TookStatus
    <3> HIDE DEF f
    <3> QED BY <1>1, <1>4, <2>2, <2>3, <3>2, <3>3, TakenHandled DEF c, TookStatus
  <2>4. CASE ~e.th[c].here
    <3>1. e \in Views /\ e.k \in [Tids -> Task] /\ e.th \in [Tids -> Thread]
      BY <1>1 DEF Sound, Views, TookStatus
    <3>2. c # t /\ e.k[c] = s.k[c] /\ ~s.th[c].here
      BY <1>1, <2>2, <2>4 DEF TookStatus
    <3>3. CASE /\ n = [e EXCEPT !.bug = "no_parent"]
               /\ \A x \in Tids : e.th[x].here => e.th[x].proc # e.k[c].tgid
      <4>1. f.bug = "no_parent"
        BY <2>4, <3>1, <3>3 DEF Views
      <4>2. h.bug = "no_parent"
        BY <2>1, <4>1
      <4>3. \A x \in Tids : s.th[x].here => s.th[x].proc # s.k[c].tgid
        BY <1>1, <3>2, <3>3 DEF TookStatus
      <4> QED BY <1>4, <3>2, <4>2, <4>3 DEF Aborted, c
    <3>4. ASSUME NEW w \in Thread, n = [e EXCEPT !.th = [e.th EXCEPT ![c] = w]],
                 Adopted(e, c, w), ~w.running
          PROVE  Handled(s, h, t) \/ Aborted(s, h, t)
      <4> DEFINE v == [w EXCEPT !.running = TRUE]
      <4>1. f = [k |-> e.k, th |-> [e.th EXCEPT ![c] = v], bug |-> e.bug]
        BY <2>2, <2>4, <3>1, <3>4 DEF Views
      <4>2. /\ v \in Thread /\ v.here = w.here /\ v.running /\ v.stopme = w.stopme
            /\ v.signo = w.signo /\ v.proc = w.proc
        BY DEF Thread
      <4> HIDE DEF v, f
      <4>3. Adopted(e, c, v)
        BY <3>4, <4>2 DEF Adopted
      <4>4. Adopted(s, c, v)
        <5>1. \A x \in Tids : (s.th[x].here <=> e.th[x].here) /\ s.th[x].proc = e.th[x].proc
          BY <1>1 DEF TookStatus
        <5> QED BY <3>2, <4>3, <5>1 DEF Adopted
      <4>5. /\ f.k = e.k /\ f.bug = e.bug /\ f.th[c] = v /\ f.th \in [Tids -> Thread]
            /\ \A u \in Tids : u # c => f.th[u] = e.th[u]
        BY <2>2, <3>1, <4>1, <4>2
      <4>6. Sound(f)
        BY <1>1, <3>1, <4>1, <4>2, <4>4, <4>5 DEF Sound, Views, Adopted, TookStatus
      <4>7. h = thread_continue_or_stop(f, t, "none")
        BY <1>1, <2>1, <4>5 DEF TookStatus
      <4>8. \A u \in Tids : u # t =>
            /\ Alike(s.k[u], f.k[u])
            /\ f.th[u] = s.th[u] \/ New(s, u, f.th[u])
        BY <1>1, <3>2, <4>2, <4>4, <4>5 DEF Alike, TookStatus, New
      <4>9. f.th[c].here /\ f.bug = "none"
        BY <1>1, <4>4, <4>5 DEF Adopted, TookStatus
      <4>10. f.th[t] = e.th[t] /\ f.k[t] = e.k[t]
        BY <3>2, <4>5
      <4> QED BY <1>1, <1>4, <2>2, <4>6, <4>7, <4>8, <4>9, <4>10, TakenHandled DEF c, TookStatus
    <3> HIDE DEF f
    <3> QED BY <2>2, <3>1, <3>3, <3>4, AdoptShape
  <2> QED BY <2>3, <2>4
<1>5. ev \in {"CLONE", "EXIT", "STOP", "GSTOP", "USR"}
  BY <1>0 DEF Task, Events, Signals
<1> QED BY <1>2, <1>3, <1>4, <1>5

\* h is what the first status of the unknown thread t leaves of the views s.
Welcomed(s, h, t) ==
    /\ h.bug = "none"
    /\ \A u \in Tids : u # t => h.th[u] = s.th[u] /\ Alike(s.k[u], h.k[u])
    /\ New(s, t, h.th[t]) /\ Resumed(s.k[t], h.k[t], "none")

\* Why the handler of an unknown thread's first status may abort.
Refused(s, h, t) ==
    \/ h.bug = "new_process" /\ \E w \in Thread : Adopted(s, t, w) /\ w.proc = t
    \/ /\ h.bug = "no_parent"
       /\ \A x \in Tids : s.th[x].here => s.th[x].proc # s.k[t].tgid

\* A thread that reports itself before its creator does is adopted and
\* resumed, or the server aborts for one of two reasons.
LEMMA UnknownShape ==
  ASSUME NEW s, Sound(s), s.bug = "none", NEW t \in Tids, ~s.th[t].here,
         s.k[t].st = "stop", s.k[t].ev = "STOP", NEW h, h = wait_main_one(s, t)
  PROVE  Welcomed(s, h, t) \/ Refused(s, h, t)
<1> DEFINE q == [s.k[t] EXCEPT !.ev = "none"]
           nk == [s.k EXCEPT ![t] = q]
           z == Reap(s, t)
           n == thread_clone_create_child(z, t)
<1>0. s \in Views /\ s.th \in [Tids -> Thread] /\ s.k \in [Tids -> Task] /\ s.k[t] \in Task
  BY DEF Sound, Views
<1>1. z = [k |-> nk, th |-> s.th, bug |-> s.bug]
  BY <1>0 DEF Reap, Views
<1>2. q \in Task /\ Reaped(s.k[t], q)
  BY <1>0 DEF Task, Events, Reaped
<1>3. h = IF n.bug # "none" THEN n ELSE thread_continue_or_stop(n, t, "none")
  BY DEF wait_main_one, thread_handle_status_unknown, thread_handle_clone_child
<1> HIDE DEF q
<1>4. nk \in [Tids -> Task] /\ nk[t] = q /\ \A u \in Tids : u # t => nk[u] = s.k[u]
  BY <1>0, <1>2
<1> HIDE DEF nk
<1>5. z \in Views /\ z.k = nk /\ z.th = s.th /\ z.bug = "none"
  BY <1>0, <1>1, <1>4 DEF Views
<1> HIDE DEF z
<1>6. \A u \in Tids : z.k[u].tgid = s.k[u].tgid /\ z.k[u].ppid = s.k[u].ppid
  BY <1>2, <1>4, <1>5 DEF Reaped
<1>7. CASE /\ n = [z EXCEPT !.bug = "no_parent"]
           /\ \A x \in Tids : z.th[x].here => z.th[x].proc # z.k[t].tgid
  <2>1. h.bug = "no_parent"
    BY <1>3, <1>5, <1>7 DEF Views
  <2> QED BY <1>5, <1>6, <1>7, <2>1 DEF Refused
<1>8. ASSUME NEW w \in Thread, n = [z EXCEPT !.th = [z.th EXCEPT ![t] = w]],
             Adopted(z, t, w), ~w.running
      PROVE  Welcomed(s, h, t) \/ Refused(s, h, t)
  <2>1. Adopted(s, t, w)
    BY <1>5, <1>6, <1>8 DEF Adopted
  <2>2. n = [k |-> nk, th |-> [s.th EXCEPT ![t] = w], bug |-> "none"]
    BY <1>5, <1>8 DEF Views
  <2> HIDE DEF n
  <2>3. /\ n.k = nk /\ n.bug = "none" /\ n.th[t] = w /\ n.th \in [Tids -> Thread]
        /\ \A u \in Tids : u # t => n.th[u] = s.th[u]
    BY <1>0, <2>2
  <2>4. w.here /\ ~w.stopme /\ w.signo = "none"
    BY <2>1 DEF Adopted
  <2>5. nk[t].st = "stop" /\ nk[t].ev = "none"
    BY <1>2, <1>4 DEF Reaped
  <2>6. Sound(n)
    <3>1. n \in Views
      BY <1>4, <2>2, <2>3 DEF Views, Bugs
    <3>2. ASSUME NEW u \in Tids, u # t
          PROVE  n.k[u] = s.k[u] /\ n.th[u] = s.th[u]
      BY <1>4, <2>3, <3>2
    <3> QED BY <1>8, <2>3, <2>4, <2>5, <3>1, <3>2 DEF Sound
  <2>7. h = thread_continue_or_stop(n, t, "none")
    BY <1>3, <2>3
  <2>8. \/ h.bug = "new_process" /\ n.th[t].proc = t
        \/ /\ h.bug = "none"
           /\ \A u \in Tids : u # t => h.th[u] = n.th[u] /\ Alike(n.k[u], h.k[u])
           /\ h.th[t].here /\ h.th[t].proc = n.th[t].proc
           /\ Resumed(n.k[t], h.k[t], n.th[t].signo)
           /\ h.th[t].running
    <3>1. n.k[t].st \in {"stop", "gstop"} /\ n.th[t].here /\ ~n.th[t].running
          /\ ~n.th[t].stopme
      BY <1>8, <2>3, <2>4, <2>5
    <3> QED BY <2>3, <2>6, <2>7, <3>1, ContinueOrStopShape
  <2>9. Sound(h) /\ Settles(n, h, t)
    BY <1>8, <2>3, <2>4, <2>6, <2>7, ContinueOrStopSound
  <2>10. CASE h.bug = "none"
    <3>1. h.th[t] \in Thread /\ h.th[t].signo = "none" /\ ~h.th[t].stopme
      BY <2>8, <2>9, <2>10 DEF Sound, Views, Settles
    <3>2. New(s, t, h.th[t])
      BY <2>1, <2>3, <2>8, <2>10, <3>1 DEF New, Adopted
    <3>3. Resumed(s.k[t], h.k[t], "none")
      BY <1>2, <1>4, <2>3, <2>4, <2>8, <2>10 DEF Resumed, Reaped
    <3>4. \A u \in Tids : u # t => h.th[u] = s.th[u] /\ Alike(s.k[u], h.k[u])
      BY <1>4, <2>3, <2>8, <2>10 DEF Alike
    <3> QED BY <2>10, <3>2, <3>3, <3>4 DEF Welcomed
  <2>11. CASE h.bug # "none"
    BY <2>1, <2>3, <2>8, <2>11 DEF Refused
  <2> QED BY <2>10, <2>11
<1> HIDE DEF n
<1> QED BY <1>5, <1>7, <1>8, AdoptShape DEF n

\* r is what process_continue for every process leaves of the views s.
AllResumed(s, r) ==
    /\ r.bug = "none"
    /\ \A t \in Tids :
        IF s.th[t].here /\ ~s.th[t].running
        THEN /\ r.th[t].here /\ r.th[t].running /\ r.th[t].proc = s.th[t].proc
             /\ r.th[t].notified = s.th[t].notified /\ r.th[t].signo = "none"
             /\ Resumed(s.k[t], r.k[t], s.th[t].signo)
        ELSE r.th[t] = s.th[t] /\ r.k[t] = s.k[t]

\* Where every thread that counts as stopped is in a ptrace stop,
\* process_continue resumes them all.
LEMMA ContinueAllShape ==
  ASSUME NEW s, Sound(s), s.bug = "none",
         \A t \in Tids : s.th[t].here /\ ~s.th[t].running => s.k[t].st \in {"stop", "gstop"}
  PROVE  AllResumed(s, process_continue_all(s))
<1> DEFINE waiting == {t \in Tids : s.th[t].here /\ ~s.th[t].running}
           opt(t) == [s.k EXCEPT ![t].opts = @ \/ s.th[t].setoptions]
           w(t) == [s.th[t] EXCEPT !.running = TRUE, !.setoptions = FALSE,
                                   !.signo = "none"]
           q(t) == PtraceCont(opt(t), t, s.th[t].signo)[t]
           nt == [t \in Tids |-> IF t \in waiting THEN w(t) ELSE s.th[t]]
           nk == [t \in Tids |-> IF t \in waiting THEN q(t) ELSE s.k[t]]
           r == process_continue_all(s)
<1>0. s \in Views BY DEF Sound
<1>1. r = [s EXCEPT !.th = nt, !.k = nk]
  BY DEF process_continue_all, Traceable
<1>2. \A t \in Tids : /\ w(t).running /\ w(t).signo = "none"
                      /\ w(t).here = s.th[t].here /\ w(t).proc = s.th[t].proc
                      /\ w(t).notified = s.th[t].notified
  BY <1>0 DEF Views, Thread
<1>3. \A t \in Tids : Resumed(s.k[t], q(t), s.th[t].signo)
  <2> TAKE t \in Tids
  <2>1. s.k[t].opts \in BOOLEAN /\ s.th[t].setoptions \in BOOLEAN
    BY <1>0 DEF Views, Task, Thread
  <2>2. opt(t) \in [Tids -> Task] /\ Alike(s.k[t], opt(t)[t])
    BY <1>0, <2>1 DEF Views, Task, Alike
  <2> HIDE DEF opt
  <2>3. Resumed(opt(t)[t], q(t), s.th[t].signo)
    BY <2>2, PtraceContShape
  <2> HIDE DEF q
  <2> QED BY <2>2, <2>3 DEF Alike, Resumed
<1> HIDE DEF w, q
<1>4. \A t \in Tids : /\ t \in waiting => nt[t] = w(t) /\ nk[t] = q(t)
                      /\ t \notin waiting => nt[t] = s.th[t] /\ nk[t] = s.k[t]
  OBVIOUS
<1> HIDE DEF nt, nk, r
<1>5. r.k = nk /\ r.th = nt /\ r.bug = s.bug
  BY <1>0, <1>1 DEF Views
<1>6. AllResumed(s, r)
  BY <1>2, <1>3, <1>4, <1>5 DEF AllResumed
<1> QED BY <1>6 DEF r

------------------------------------------------------------------------------
(* The server's view is true                                               *)

\* The task q is what the thread_t w says of it.
FitsTask(q, w) ==
    /\ w.here => q.st # "none" /\ w.proc \in Tids
    /\ w.here /\ ~w.running => q.st \in {"stop", "gstop"} /\ q.ev = "none"
    /\ ~w.here => q.st \in {"none", "born", "stop"}
    /\ ~w.here /\ q.st = "stop" => q.ev = "STOP"
    /\ q.st = "none" => q.tgid = NoTid /\ q.ppid = NoTid
    /\ q.st = "zombie" => q.ev = "EXIT"
    /\ q.ev # "EXEC"

\* A task that the server does not know is the child of a clone event that
\* has not been handled yet.
Announced(s) ==
    \A t \in Tids : ~s.th[t].here /\ s.k[t].st # "none" =>
        \E u \in Tids : s.th[u].here /\ s.k[u].ev = "CLONE" /\ s.k[u].child = t

Fits(s) == (\A t \in Tids : FitsTask(s.k[t], s.th[t])) /\ Announced(s)

\* An adopted thread exists.
LEMMA AdoptedExists ==
  ASSUME NEW s, Fits(s), NEW u \in Tids, NEW w, Adopted(s, u, w)
  PROVE  s.k[u].st # "none" /\ w.proc \in Tids
<1>1. \A x \in Tids : s.th[x].here => s.th[x].proc \in Tids
  BY DEF Fits, FitsTask
<1>2. s.k[u].st = "none" => s.k[u].tgid = NoTid /\ s.k[u].ppid = NoTid
  BY DEF Fits, FitsTask
<1>3. s.k[u].st # "none"
  <2>1. PICK x \in Tids : s.th[x].here /\ s.th[x].proc \in {s.k[u].tgid, s.k[u].ppid}
    BY DEF Adopted
  <2> QED BY <1>1, <1>2, <2>1, NoTidAssumption
<1>4. w.proc \in Tids
  <2>1. CASE \E x \in Tids : s.th[x].here /\ s.th[x].proc = s.k[u].tgid
    <3>1. w.proc = s.k[u].tgid
      BY <2>1 DEF Adopted
    <3> QED BY <1>1, <2>1, <3>1
  <2>2. CASE ~ \E x \in Tids : s.th[x].here /\ s.th[x].proc = s.k[u].tgid
    <3>1. w.proc = u
      BY <2>2 DEF Adopted
    <3> QED BY <3>1
  <2> QED BY <2>1, <2>2
<1> QED BY <1>3, <1>4

\* A known thread that has a status to report was taken to run.
LEMMA ReporterRuns ==
  ASSUME NEW s, Sound(s), Fits(s), NEW t \in Tids, s.th[t].here, s.k[t].ev # "none"
  PROVE  /\ s.th[t].running /\ s.th[t].signo = "none"
         /\ s.k[t].ev # "EXIT" => s.k[t].st \in {"stop", "gstop"}
         /\ s.k[t].ev # "EXEC"
  BY DEF Fits, FitsTask, Sound

\* Handling the status of a known thread keeps the view true.
LEMMA HandledFits ==
  ASSUME NEW s, Sound(s), Fits(s), NEW t \in Tids, s.th[t].here, s.k[t].ev # "none",
         NEW h, Handled(s, h, t)
  PROVE  Fits(h)
<1>1. /\ \A u \in Tids : u # t => Alike(s.k[u], h.k[u]) /\ (h.th[u] = s.th[u] \/ New(s, u, h.th[u]))
  BY DEF Handled
<1>2. \A u \in Tids : FitsTask(s.k[u], s.th[u])
  BY DEF Fits
<1>3. ASSUME NEW u \in Tids, u # t PROVE FitsTask(h.k[u], h.th[u])
  <2>1. Alike(s.k[u], h.k[u]) /\ FitsTask(s.k[u], s.th[u])
    BY <1>1, <1>2, <1>3
  <2>2. CASE h.th[u] = s.th[u]
    BY <2>1, <2>2 DEF Alike, FitsTask
  <2>3. CASE New(s, u, h.th[u])
    <3>1. h.th[u].here /\ h.th[u].running
      BY <2>3 DEF New, Adopted
    <3>2. s.k[u].st # "none" /\ h.th[u].proc \in Tids
      BY <2>3, AdoptedExists DEF New
    <3> QED BY <2>1, <3>1, <3>2 DEF Alike, FitsTask
  <2> QED BY <1>1, <1>3, <2>2, <2>3
<1>4. FitsTask(h.k[t], h.th[t])
  <2>1. CASE s.k[t].ev = "EXIT"
    <3>1. h.k[t] = NoTask /\ h.th[t] = NoThread
      BY <2>1 DEF Handled
    <3> QED BY <3>1 DEF FitsTask, NoTask, NoThread
  <2>2. CASE s.k[t].ev # "EXIT"
    <3>1. s.k[t].st \in {"stop", "gstop"} /\ s.k[t].ev # "EXEC" /\ s.th[t].proc \in Tids
      BY <1>2, <2>2, ReporterRuns DEF FitsTask
    <3>2. h.th[t].here /\ h.th[t].proc = s.th[t].proc
      BY <2>2 DEF Handled
    <3>3. CASE s.th[t].stopme
      <4>1. Reaped(s.k[t], h.k[t])
        BY <2>2, <3>3 DEF Handled
      <4> QED BY <3>1, <3>2, <4>1 DEF FitsTask, Reaped
    <3>4. CASE ~s.th[t].stopme
      <4>1. Resumed(s.k[t], h.k[t], s.k[t].ev) /\ h.th[t].running
        BY <2>2, <3>4 DEF Handled
      <4> QED BY <3>1, <3>2, <4>1 DEF FitsTask, Resumed
    <3> QED BY <3>3, <3>4
  <2> QED BY <2>1, <2>2
<1>5. Announced(h)
  <2> SUFFICES ASSUME NEW x \in Tids, ~h.th[x].here, h.k[x].st # "none"
               PROVE  \E u \in Tids : h.th[u].here /\ h.k[u].ev = "CLONE" /\ h.k[u].child = x
    BY DEF Announced
  <2>1. x # t
    <3>1. s.k[t].ev # "EXIT" => h.th[t].here
      BY DEF Handled
    <3>2. s.k[t].ev = "EXIT" => h.k[t].st = "none"
      BY DEF Handled, NoTask
    <3> QED BY <3>1, <3>2
  <2>2. ~s.th[x].here /\ s.k[x].st # "none"
    BY <1>1, <2>1 DEF Alike, New
  <2>3. PICK u \in Tids : s.th[u].here /\ s.k[u].ev = "CLONE" /\ s.k[u].child = x
    BY <2>2 DEF Fits, Announced
  <2>4. u # t
    <3>1. s.k[t].ev = "CLONE" => h.th[s.k[t].child].here
      BY DEF Handled
    <3> QED BY <2>3, <3>1
  <2>5. h.th[u] = s.th[u] /\ h.k[u].ev = "CLONE" /\ h.k[u].child = x
    BY <1>1, <2>3, <2>4 DEF Alike, New
  <2> QED BY <2>3, <2>5
<1> QED BY <1>3, <1>4, <1>5 DEF Fits

\* Adopting a thread that reported itself first keeps the view true.
LEMMA WelcomedFits ==
  ASSUME NEW s, Fits(s), NEW t \in Tids, ~s.th[t].here, s.k[t].ev # "none",
         NEW h, Welcomed(s, h, t)
  PROVE  Fits(h)
<1>1. \A u \in Tids : u # t => h.th[u] = s.th[u] /\ Alike(s.k[u], h.k[u])
  BY DEF Welcomed
<1>2. h.th[t].here /\ h.th[t].running /\ h.th[t].proc \in Tids
  <2>1. New(s, t, h.th[t])
    BY DEF Welcomed
  <2> QED BY <2>1, AdoptedExists DEF New, Adopted
<1>3. h.k[t].st = "run" /\ h.k[t].ev = "none"
  BY DEF Welcomed, Resumed
<1>4. ASSUME NEW u \in Tids PROVE FitsTask(h.k[u], h.th[u])
  <2>1. CASE u = t
    BY <1>2, <1>3, <2>1 DEF FitsTask
  <2>2. CASE u # t
    <3>1. FitsTask(s.k[u], s.th[u])
      BY DEF Fits
    <3> QED BY <1>1, <2>2, <3>1 DEF FitsTask, Alike
  <2> QED BY <2>1, <2>2
<1>5. Announced(h)
  <2> SUFFICES ASSUME NEW x \in Tids, ~h.th[x].here, h.k[x].st # "none"
               PROVE  \E u \in Tids : h.th[u].here /\ h.k[u].ev = "CLONE" /\ h.k[u].child = x
    BY DEF Announced
  <2>1. ~s.th[x].here /\ s.k[x].st # "none"
    BY <1>1, <1>2 DEF Alike
  <2>2. PICK u \in Tids : s.th[u].here /\ s.k[u].ev = "CLONE" /\ s.k[u].child = x
    BY <2>1 DEF Fits, Announced
  <2>3. h.th[u] = s.th[u] /\ h.k[u].ev = "CLONE" /\ h.k[u].child = x
    BY <1>1, <2>2 DEF Alike
  <2> QED BY <2>2, <2>3
<1> QED BY <1>4, <1>5 DEF Fits

\* Resuming every thread keeps the view true.
LEMMA AllResumedFits ==
  ASSUME NEW s, Fits(s), NEW r, AllResumed(s, r)
  PROVE  Fits(r)
<1>1. ASSUME NEW t \in Tids PROVE FitsTask(r.k[t], r.th[t])
  <2>1. FitsTask(s.k[t], s.th[t])
    BY DEF Fits
  <2>2. CASE s.th[t].here /\ ~s.th[t].running
    <3>1. r.th[t].here /\ r.th[t].running /\ r.th[t].proc = s.th[t].proc
          /\ Resumed(s.k[t], r.k[t], s.th[t].signo)
      BY <2>2 DEF AllResumed
    <3> QED BY <2>1, <2>2, <3>1 DEF FitsTask, Resumed
  <2>3. CASE ~(s.th[t].here /\ ~s.th[t].running)
    BY <2>1, <2>3 DEF AllResumed
  <2> QED BY <2>2, <2>3
<1>2. Announced(r)
  <2> SUFFICES ASSUME NEW x \in Tids, ~r.th[x].here, r.k[x].st # "none"
               PROVE  \E u \in Tids : r.th[u].here /\ r.k[u].ev = "CLONE" /\ r.k[u].child = x
    BY DEF Announced
  <2>1. ~s.th[x].here /\ s.k[x].st # "none"
    BY DEF AllResumed
  <2>2. PICK u \in Tids : s.th[u].here /\ s.k[u].ev = "CLONE" /\ s.k[u].child = x
    BY <2>1 DEF Fits, Announced
  <2>3. s.th[u].running
    BY <2>2 DEF Fits, FitsTask
  <2> QED BY <2>2, <2>3 DEF AllResumed
<1> QED BY <1>1, <1>2 DEF Fits

\* q is the task r, except for its state, its status and its pending signals.
SameOrigin(q, r) ==
    r.tgid = q.tgid /\ r.ppid = q.ppid /\ r.sent = q.sent /\ r.got = q.got

\* A delivered signal changes one task.
LEMMA DeliverShape ==
  ASSUME Sound(View), NEW t \in Tids, Deliver(t)
  PROVE  /\ k[t].st \in {"run", "born"}
         /\ \A u \in Tids : u # t => k'[u] = k[u]
         /\ \E sig \in k[t].pend :
              /\ k[t].st = "born" => sig = "STOP"
              /\ SameOrigin(k[t], k'[t]) /\ k'[t].child = k[t].child
              /\ k'[t].ev = sig /\ k'[t].pend = k[t].pend \ {sig} /\ sig \in Signals
              /\ k'[t].st = IF sig = "GSTOP" THEN "gstop" ELSE "stop"
<1>1. PICK sig \in k[t].pend :
        /\ k[t].st = "born" => sig = "STOP"
        /\ k' = [k EXCEPT ![t].st = IF sig = "GSTOP" THEN "gstop" ELSE "stop",
                          ![t].pend = @ \ {sig}, ![t].ev = sig]
  BY DEF Deliver
<1> DEFINE st == IF sig = "GSTOP" THEN "gstop" ELSE "stop"
           pe == k[t].pend \ {sig}
           q == [k[t] EXCEPT !.st = st, !.pend = pe, !.ev = sig]
<1>2. k \in [Tids -> Task] /\ k[t] \in Task /\ sig \in Signals
  BY TasksOK DEF Task
<1>3. k' = [k EXCEPT ![t] = q]
  BY <1>1, <1>2
<1> HIDE DEF st, pe
<1>4. q.st = st /\ q.ev = sig /\ q.pend = pe /\ SameOrigin(k[t], q) /\ q.child = k[t].child
  BY <1>2 DEF Task, SameOrigin
<1> HIDE DEF q
<1>5. k'[t] = q /\ \A u \in Tids : u # t => k'[u] = k[u]
  BY <1>2, <1>3
<1>6. k[t].st \in {"run", "born"}
  BY DEF Deliver
<1> QED BY <1>1, <1>2, <1>4, <1>5, <1>6 DEF st, pe

\* An application's signal changes one task.
LEMMA SendUsrShape ==
  ASSUME Sound(View), NEW t \in Tids, SendUsr(t)
  PROVE  /\ k[t].st \notin {"none", "zombie"} /\ "USR" \notin k[t].pend
         /\ \A u \in Tids : u # t => k'[u] = k[u]
         /\ k'[t].st = k[t].st /\ k'[t].ev = k[t].ev /\ k'[t].child = k[t].child
         /\ k'[t].tgid = k[t].tgid /\ k'[t].ppid = k[t].ppid
         /\ k'[t].got = k[t].got /\ k'[t].sent = k[t].sent + 1 /\ "USR" \in k'[t].pend
<1> DEFINE pe == k[t].pend \cup {"USR"}
           se == k[t].sent + 1
           q == [k[t] EXCEPT !.pend = pe, !.sent = se]
<1>1. k \in [Tids -> Task] /\ k[t] \in Task
  BY TasksOK
<1>2. k' = [k EXCEPT ![t] = q]
  BY <1>1 DEF SendUsr
<1>3. "USR" \in pe
  OBVIOUS
<1> HIDE DEF pe, se
<1>4. /\ q.st = k[t].st /\ q.ev = k[t].ev /\ q.child = k[t].child /\ q.tgid = k[t].tgid
      /\ q.ppid = k[t].ppid /\ q.got = k[t].got /\ q.sent = se /\ q.pend = pe
  BY <1>1 DEF Task
<1> HIDE DEF q
<1>5. k'[t] = q /\ \A u \in Tids : u # t => k'[u] = k[u]
  BY <1>1, <1>2
<1>6. k[t].st \notin {"none", "zombie"} /\ "USR" \notin k[t].pend
  BY DEF SendUsr, Live
<1> QED BY <1>3, <1>4, <1>5, <1>6 DEF se

\* A clone stops its creator with an event and leaves a task that has not
\* run yet.
LEMMA NewTaskShape ==
  ASSUME Sound(View), NEW t \in Tids, NEW c \in Tids, NEW tg \in Tids \cup {NoTid},
         NewTask(t, c, tg)
  PROVE  /\ c # t /\ k[t].st = "run" /\ ~th[c].here /\ k[c].st = "none"
         /\ \A u \in Tids : u # t /\ u # c => k'[u] = k[u]
         /\ \A u \in Tids : k[u].ev = "CLONE" => k[u].child # c
         /\ k'[t].st = "stop" /\ k'[t].ev = "CLONE" /\ k'[t].child = c
         /\ SameOrigin(k[t], k'[t]) /\ k'[t].pend = k[t].pend
         /\ k'[c].st = "born" /\ k'[c].ev = "none" /\ k'[c].tgid = tg
         /\ k'[c].sent = 0 /\ k'[c].got = 0 /\ k'[c].pend = {"STOP"}
<1> DEFINE pp == IF tg = c THEN k[t].tgid ELSE NoTid
           st == {"STOP"}
           q == [NoTask EXCEPT !.st = "born", !.tgid = tg, !.pend = st,
                               !.ppid = pp, !.opts = TRUE]
           r == [k[t] EXCEPT !.st = "stop", !.ev = "CLONE", !.child = c]
<1>1. k \in [Tids -> Task] /\ k[t] \in Task /\ NoTask \in Task
      /\ NoTask.ev = "none" /\ NoTask.sent = 0 /\ NoTask.got = 0
  BY TasksOK, NoTaskType DEF NoTask
<1>2. /\ c # t /\ k[t].st = "run" /\ ~th[c].here /\ k[c].st = "none"
      /\ \A u \in Tids : k[u].ev = "CLONE" => k[u].child # c
  BY DEF NewTask
<1>3. k' = [k EXCEPT ![c] = q, ![t] = r]
  BY <1>1, <1>2 DEF NewTask
<1> HIDE DEF pp, st
<1>4. /\ q.st = "born" /\ q.ev = "none" /\ q.tgid = tg /\ q.sent = 0 /\ q.got = 0
      /\ q.pend = st
  BY <1>1 DEF Task
<1>5. /\ r.st = "stop" /\ r.ev = "CLONE" /\ r.child = c /\ SameOrigin(k[t], r)
      /\ r.pend = k[t].pend
  BY <1>1 DEF Task, SameOrigin
<1> HIDE DEF q, r
<1>6. k'[t] = r /\ k'[c] = q /\ \A u \in Tids : u # t /\ u # c => k'[u] = k[u]
  BY <1>1, <1>2, <1>3
<1> QED BY <1>2, <1>4, <1>5, <1>6 DEF st

\* A thread that ends becomes a zombie with a status.
LEMMA ExitShape ==
  ASSUME Sound(View), NEW t \in Tids, Exit(t)
  PROVE  /\ k[t].st = "run" /\ k'[t].st = "zombie" /\ k'[t].ev = "EXIT"
         /\ \A u \in Tids : u # t => k'[u] = k[u]
<1>1. k \in [Tids -> Task] /\ k[t] \in Task /\ k[t].st = "run"
      /\ k' = [k EXCEPT ![t] = Dead(k[t])]
  BY TasksOK DEF Exit
<1>2. Dead(k[t]).st = "zombie" /\ Dead(k[t]).ev = "EXIT"
  BY <1>1 DEF Dead, Task
<1> QED BY <1>1, <1>2

\* What the program and the kernel do in an orderly program.
LEMMA KernelCases ==
  ASSUME Sound(View), NEW t \in Tids, Kernel(t),
         Env \subseteq {"signal", "clone", "fork", "exit"}
  PROVE  /\ bug = "none" /\ th' = th /\ bug' = bug
         /\ UNCHANGED <<tracing, pc, op, todo, cur, curt, cmds>>
         /\ \/ Deliver(t)
            \/ SendUsr(t)
            \/ "exit" \in Env /\ Exit(t)
            \/ \E c \in Tids : "fork" \in Env /\ NewTask(t, c, c)
            \/ \E c \in Tids : NewTask(t, c, k[t].tgid)
  BY KernelSound DEF Kernel, Program, Clone, Fork

\* Views that fit are the next state's.
LEMMA BecomesFits ==
  ASSUME NEW v, Fits(v), k' = v.k, th' = v.th
  PROVE  Fits(View)'
<1>1. View'.k = v.k /\ View'.th = v.th
  BY DEF View
<1>2. Fits(View')
  BY <1>1 DEF Fits, Announced
<1> QED BY <1>2 DEF Fits, Announced, FitsTask, View

\* The program and the kernel leave the server's view true.
LEMMA KernelFits ==
  ASSUME Sound(View), Fits(View), NEW t \in Tids, Kernel(t),
         Env \subseteq {"signal", "clone", "fork", "exit"}
  PROVE  Fits(View)'
<1> DEFINE v == [k |-> k', th |-> th]
<1>0. th' = th /\ v.k = k' /\ v.th = th
  BY KernelCases
<1>1. /\ \A u \in Tids : FitsTask(k[u], th[u])
      /\ \A x \in Tids : ~th[x].here /\ k[x].st # "none" =>
           \E u \in Tids : th[u].here /\ k[u].ev = "CLONE" /\ k[u].child = x
      /\ \A u \in Tids : k[u].ev # "none" => k[u].st \in {"stop", "gstop", "zombie"}
  BY DEF Fits, Announced, View, Sound
<1> SUFFICES /\ \A u \in Tids : FitsTask(k'[u], th[u])
             /\ \A x \in Tids : ~th[x].here /\ k'[x].st # "none" =>
                  \E u \in Tids : th[u].here /\ k'[u].ev = "CLONE" /\ k'[u].child = x
  <2> HIDE DEF v
  <2>1. Fits(v)
    BY <1>0 DEF Fits, Announced
  <2> QED BY <1>0, <2>1, BecomesFits
<1>2. ASSUME Deliver(t)
      PROVE  /\ \A u \in Tids : FitsTask(k'[u], th[u])
             /\ \A x \in Tids : ~th[x].here /\ k'[x].st # "none" =>
                  \E u \in Tids : th[u].here /\ k'[u].ev = "CLONE" /\ k'[u].child = x
  <2>1. /\ k[t].st \in {"run", "born"} /\ k[t].ev = "none"
        /\ \A u \in Tids : u # t => k'[u] = k[u]
    BY <1>1, <1>2, DeliverShape
  <2>2. PICK sig \in k[t].pend :
              /\ k[t].st = "born" => sig = "STOP"
              /\ SameOrigin(k[t], k'[t]) /\ k'[t].child = k[t].child
              /\ k'[t].ev = sig /\ sig \in Signals
              /\ k'[t].st = IF sig = "GSTOP" THEN "gstop" ELSE "stop"
    BY <1>2, DeliverShape
  <2>3. FitsTask(k'[t], th[t])
    BY <1>1, <2>1, <2>2 DEF FitsTask, SameOrigin, Signals
  <2> QED BY <1>1, <2>1, <2>2, <2>3
<1>3. ASSUME SendUsr(t)
      PROVE  /\ \A u \in Tids : FitsTask(k'[u], th[u])
             /\ \A x \in Tids : ~th[x].here /\ k'[x].st # "none" =>
                  \E u \in Tids : th[u].here /\ k'[u].ev = "CLONE" /\ k'[u].child = x
  <2>1. \A u \in Tids : /\ k'[u].st = k[u].st /\ k'[u].ev = k[u].ev
                        /\ k'[u].child = k[u].child /\ k'[u].tgid = k[u].tgid
                        /\ k'[u].ppid = k[u].ppid
    BY <1>3, SendUsrShape
  <2>2. \A u \in Tids : FitsTask(k'[u], th[u])
    BY <1>1, <2>1 DEF FitsTask
  <2> QED BY <1>1, <2>1, <2>2
<1>4. ASSUME NEW c \in Tids, NEW tg \in Tids \cup {NoTid}, NewTask(t, c, tg)
      PROVE  /\ \A u \in Tids : FitsTask(k'[u], th[u])
             /\ \A x \in Tids : ~th[x].here /\ k'[x].st # "none" =>
                  \E u \in Tids : th[u].here /\ k'[u].ev = "CLONE" /\ k'[u].child = x
  <2>1. /\ c # t /\ k[t].st = "run" /\ ~th[c].here
        /\ \A u \in Tids : u # t /\ u # c => k'[u] = k[u]
        /\ k'[t].st = "stop" /\ k'[t].ev = "CLONE" /\ k'[t].child = c
        /\ k'[c].st = "born" /\ k'[c].ev = "none"
    BY <1>4, NewTaskShape
  <2>2. th[t].here /\ th[t].running /\ th[t].proc \in Tids /\ k[t].ev = "none"
    BY <1>1, <2>1 DEF FitsTask
  <2>3. FitsTask(k'[t], th[t]) /\ FitsTask(k'[c], th[c])
    BY <2>1, <2>2 DEF FitsTask
  <2>4. \A u \in Tids : FitsTask(k'[u], th[u])
    BY <1>1, <2>1, <2>3
  <2>5. ASSUME NEW x \in Tids, ~th[x].here, k'[x].st # "none"
        PROVE  \E u \in Tids : th[u].here /\ k'[u].ev = "CLONE" /\ k'[u].child = x
    <3>1. CASE x = c
      BY <2>1, <2>2, <3>1
    <3>2. CASE x # c
      <4>1. x # t /\ k[x].st # "none"
        BY <2>1, <2>2, <2>5, <3>2
      <4>2. PICK u \in Tids : th[u].here /\ k[u].ev = "CLONE" /\ k[u].child = x
        BY <1>1, <2>5, <4>1
      <4>3. u # t /\ u # c
        BY <2>1, <2>2, <4>2
      <4> QED BY <2>1, <4>2, <4>3
    <3> QED BY <3>1, <3>2
  <2> QED BY <2>4, <2>5
<1>5. ASSUME Exit(t)
      PROVE  /\ \A u \in Tids : FitsTask(k'[u], th[u])
             /\ \A x \in Tids : ~th[x].here /\ k'[x].st # "none" =>
                  \E u \in Tids : th[u].here /\ k'[u].ev = "CLONE" /\ k'[u].child = x
  <2>1. /\ k[t].st = "run" /\ k'[t].st = "zombie" /\ k'[t].ev = "EXIT"
        /\ \A u \in Tids : u # t => k'[u] = k[u]
    BY <1>5, ExitShape
  <2>2. th[t].here /\ th[t].running /\ th[t].proc \in Tids /\ k[t].ev = "none"
    BY <1>1, <2>1 DEF FitsTask
  <2>3. FitsTask(k'[t], th[t])
    BY <2>1, <2>2 DEF FitsTask
  <2> QED BY <1>1, <2>1, <2>2, <2>3
<1>6. k[t].tgid \in Tids \cup {NoTid}
  BY TasksOK DEF Task
<1> QED BY <1>2, <1>3, <1>4, <1>5, <1>6, KernelCases

\* Where the server is in a command, and which threads run there.
Course ==
    /\ pc \in {"loop", "any_running", "stop_iter", "process_stop", "stop_wait", "detach"}
    /\ pc = "loop" <=> op = "none"
    /\ pc \in {"any_running", "stop_iter"} => op # "DETC"
    /\ pc = "detach" => op = "DETC"
    /\ pc = "detach" => \A t \in Tids : th[t].here /\ th[t].proc = cur => ~th[t].running
    /\ op \notin {"none", "DETC"} => tracing
    /\ tracing /\ op \in {"none", "DETC"} =>
        \A t \in Tids : th[t].here /\ (op = "DETC" => th[t].proc # cur) => th[t].running
    /\ ~tracing => \A t \in Tids : th[t].here => ~th[t].running
    /\ pc = "stop_wait" => /\ th[curt].here /\ th[curt].proc = cur
                           /\ th[curt].running /\ th[curt].stopme

\* The inductive invariant of an orderly program.
Truth == bug = "none" => Fits(View) /\ Course

\* While the trace is stopped no thread has a status to report.
LEMMA QuietWhenStopped ==
  ASSUME Sound(View), Fits(View), Course, NEW t \in Tids, k[t].ev # "none"
  PROVE  tracing
<1>1. \A u \in Tids : th[u].here /\ k[u].ev # "none" => th[u].running
  BY ReporterRuns DEF View
<1>2. CASE th[t].here
  BY <1>1, <1>2 DEF Course
<1>3. CASE ~th[t].here
  <2>1. k[t].st # "none"
    BY DEF Sound, View
  <2>2. PICK u \in Tids : th[u].here /\ k[u].ev = "CLONE"
    BY <1>3, <2>1 DEF Fits, Announced, View
  <2> QED BY <1>1, <2>2 DEF Course
<1> QED BY <1>2, <1>3

\* thread_stop changes one task and one thread_t.
LEMMA ThreadStopShape ==
  ASSUME Sound(View), NEW t \in Tids, thread_stop(t)
  PROVE  /\ th[t].here /\ th[t].running /\ th[t].proc = cur
         /\ bug' = "none" => k[t].st # "none"
         /\ \A u \in Tids : u # t => k'[u] = k[u] /\ th'[u] = th[u]
         /\ Alike(k[t], k'[t]) /\ ("USR" \in k'[t].pend <=> "USR" \in k[t].pend)
         /\ th'[t].here /\ th'[t].running /\ th'[t].proc = cur /\ th'[t].stopme
         /\ th'[t].signo = th[t].signo /\ th'[t].notified = th[t].notified
<1> DEFINE pe == IF Live(k, t) THEN k[t].pend \cup {"STOP"} ELSE k[t].pend
           q == [k[t] EXCEPT !.pend = pe]
           w == [th[t] EXCEPT !.stopme = TRUE]
<1>0. k \in [Tids -> Task] /\ th \in [Tids -> Thread] /\ k[t] \in Task /\ th[t] \in Thread
  BY TasksOK
<1>1. /\ th[t].here /\ th[t].running /\ th[t].proc = cur
      /\ th' = [th EXCEPT ![t] = w]
      /\ \/ bug' = "ptrace" /\ k' = k
         \/ k[t].st # "none" /\ k' = [k EXCEPT ![t] = q]
  BY <1>0 DEF thread_stop, InProc, Running, View
<1>2. "USR" \in pe <=> "USR" \in k[t].pend
  OBVIOUS
<1> HIDE DEF pe
<1>3. Alike(k[t], q) /\ ("USR" \in q.pend <=> "USR" \in k[t].pend)
  BY <1>0, <1>2 DEF Task, Alike
<1>4. /\ w.here /\ w.running /\ w.proc = cur /\ w.stopme /\ w.signo = th[t].signo
      /\ w.notified = th[t].notified
  BY <1>0, <1>1 DEF Thread
<1> HIDE DEF q, w
<1>5. th'[t] = w /\ \A u \in Tids : u # t => k'[u] = k[u] /\ th'[u] = th[u]
  BY <1>0, <1>1
<1>6. k'[t] = k[t] \/ k'[t] = q
  BY <1>0, <1>1
<1>7. Alike(k[t], k'[t]) /\ ("USR" \in k'[t].pend <=> "USR" \in k[t].pend)
  BY <1>3, <1>6 DEF Alike
<1> QED BY <1>1, <1>4, <1>5, <1>7

\* Every step of an orderly program, or of the server, keeps the view true.
LEMMA NextTruth ==
  ASSUME Orderly, Inv, Truth, [Next]_vars, bug' = "none"
  PROVE  Fits(View)' /\ Course'
<1>0. Sound(View) /\ Rest /\ NoStaleStopme /\ Waits
  BY TypeParts DEF Inv
<1>00. View.k = k /\ View.th = th /\ View.bug = bug
  BY DEF View
<1>1. CASE UNCHANGED vars
  <2>1. bug = "none" /\ Fits(View) /\ Course
    BY <1>1 DEF Truth, vars
  <2>2. Fits(View)'
    BY <1>1, <1>00, <2>1, BecomesFits DEF vars
  <2> QED BY <1>1, <2>1, <2>2 DEF vars, Course
<1> SUFFICES ASSUME Next PROVE Fits(View)' /\ Course'
  BY <1>1
<1>2. bug = "none" /\ Fits(View) /\ Course
  <2>1. bug = "none"
    BY DEF Next, Command, Server, WaitMain, Kernel, At, Accept, handle_STRT, handle_STOP,
           handle_INJL, handle_INJU, StopFirst, handle_DETC, handle_KILL,
           process_any_running, StopIter, thread_stop, thread_kill, StopWait,
           process_stabilize, process_detach, KillWait, KillDone
  <2> QED BY <2>1 DEF Truth
<1>3. \A t \in Tids : FitsTask(k[t], th[t])
  BY <1>00, <1>2 DEF Fits
<1>4. ASSUME NEW t \in Tids, Kernel(t) PROVE Fits(View)' /\ Course'
  <2>1. Fits(View)'
    BY <1>0, <1>2, <1>4, KernelFits DEF Orderly
  <2>2. th' = th /\ UNCHANGED <<tracing, pc, op, todo, cur, curt, cmds>>
    BY <1>0, <1>4, KernelCases DEF Orderly
  <2> QED BY <1>2, <2>1, <2>2 DEF Course
<1>5. ASSUME NEW t \in Tids, WaitMain(t) PROVE Fits(View)' /\ Course'
  <2> DEFINE v == wait_main_one(View, t)
  <2>1. /\ pc = "loop" /\ op = "none" /\ k[t].ev # "none" /\ Becomes(v)
        /\ UNCHANGED <<tracing, pc, op, todo, cur, curt, cmds>>
    BY <1>2, <1>5 DEF WaitMain, At, Waitable, Course
  <2>2. k' = v.k /\ th' = v.th /\ v.bug = "none"
    BY <2>1 DEF Becomes
  <2>3. tracing /\ \A u \in Tids : th[u].here => th[u].running
    BY <1>0, <1>2, <2>1, QuietWhenStopped DEF Course
  <2>4. CASE th[t].here
    <3>1. /\ th[t].signo = "none" /\ k[t].ev # "EXEC"
          /\ k[t].ev # "EXIT" => k[t].st \in {"stop", "gstop"}
      BY <1>0, <1>00, <1>2, <2>1, <2>4, ReporterRuns
    <3>2. v = thread_handle_status(View, t)
      BY <2>4, <1>00 DEF wait_main_one
    <3> HIDE DEF v
    <3>3. Handled(View, v, t)
      BY <1>0, <1>00, <1>2, <2>1, <2>2, <2>4, <3>1, <3>2, StatusShape DEF Aborted
    <3>4. Fits(View)'
      BY <1>0, <1>00, <1>2, <2>1, <2>2, <2>4, <3>3, HandledFits, BecomesFits
    <3>5. ~th[t].stopme
      BY <1>0, <1>2, <2>1 DEF NoStaleStopme
    <3>6. \A u \in Tids : v.th[u].here => v.th[u].running
      BY <1>00, <2>3, <3>3, <3>5 DEF Handled, New, NoThread
    <3> QED BY <1>2, <2>1, <2>2, <2>3, <3>4, <3>6 DEF Course
  <2>5. CASE ~th[t].here
    <3>1. k[t].st = "stop" /\ k[t].ev = "STOP"
      BY <1>0, <1>00, <1>3, <2>1, <2>5 DEF Sound, FitsTask
    <3> HIDE DEF v
    <3>2. Welcomed(View, v, t)
      BY <1>0, <1>00, <1>2, <2>2, <2>5, <3>1, UnknownShape DEF Refused, v
    <3>3. Fits(View)'
      BY <1>00, <1>2, <2>1, <2>2, <2>5, <3>2, WelcomedFits, BecomesFits
    <3>4. \A u \in Tids : v.th[u].here => v.th[u].running
      BY <1>00, <2>3, <3>2 DEF Welcomed, New
    <3> QED BY <1>2, <2>1, <2>2, <2>3, <3>3, <3>4 DEF Course
  <2> QED BY <2>4, <2>5
<1>6. AllResumed(View, process_continue_all(View)) /\ Fits(process_continue_all(View))
      /\ \A u \in Tids : process_continue_all(View).th[u].here =>
                         process_continue_all(View).th[u].running
  <2>1. AllResumed(View, process_continue_all(View))
    BY <1>0, <1>00, <1>2, <1>3, ContinueAllShape DEF FitsTask
  <2>2. \A u \in Tids : process_continue_all(View).th[u].here =>
                        process_continue_all(View).th[u].running
    BY <2>1 DEF AllResumed
  <2> QED BY <1>2, <2>1, <2>2, AllResumedFits
<1>7. ASSUME handle_STRT PROVE Fits(View)' /\ Course'
  <2> DEFINE v == process_continue_all(View)
  <2>1. /\ pc = "loop" /\ op = "none" /\ UNCHANGED <<pc, op, todo, cur, curt>>
        /\ \/ UNCHANGED <<k, th, bug, tracing>>
           \/ Becomes(v) /\ tracing' = TRUE
    BY <1>2, <1>7 DEF handle_STRT, Accept, At, Course
  <2> HIDE DEF v
  <2>2. CASE UNCHANGED <<k, th, bug, tracing>>
    <3>1. Fits(View)'
      BY <1>00, <1>2, <2>2, BecomesFits
    <3> QED BY <1>2, <2>1, <2>2, <3>1 DEF Course
  <2>3. CASE Becomes(v) /\ tracing' = TRUE
    <3>1. k' = v.k /\ th' = v.th
      BY <2>3 DEF Becomes
    <3>2. Fits(View)' /\ \A u \in Tids : th'[u].here => th'[u].running
      BY <1>6, <3>1, BecomesFits DEF v
    <3> QED BY <1>2, <2>1, <2>3, <3>2 DEF Course
  <2> QED BY <2>1, <2>2, <2>3
<1>8. ASSUME handle_STOP \/ handle_INJL \/ handle_INJU PROVE Fits(View)' /\ Course'
  <2>1. /\ pc = "loop" /\ op = "none" /\ UNCHANGED <<k, th, bug, tracing, todo, cur, curt>>
        /\ \/ UNCHANGED <<pc, op>>
           \/ tracing /\ pc' = "any_running" /\ op' \in {"STOP", "INJL", "INJU"}
    BY <1>2, <1>8 DEF handle_STOP, handle_INJL, handle_INJU, StopFirst, Accept, At, Course
  <2>2. Fits(View)'
    BY <1>00, <1>2, <2>1, BecomesFits
  <2> QED BY <1>2, <2>1, <2>2 DEF Course
<1>9. ASSUME NEW p \in Tids, handle_DETC(p) PROVE Fits(View)' /\ Course'
  <2>1. /\ pc = "loop" /\ op = "none" /\ pc' = "process_stop" /\ op' = "DETC" /\ cur' = p
        /\ UNCHANGED <<k, th, bug, tracing, todo, curt>>
    BY <1>2, <1>9 DEF handle_DETC, Accept, At, Course
  <2>2. Fits(View)'
    BY <1>00, <1>2, <2>1, BecomesFits
  <2> QED BY <1>2, <2>1, <2>2 DEF Course
<1>10. ASSUME process_any_running PROVE Fits(View)' /\ Course'
  <2> DEFINE v == process_continue_all(View)
  <2>1. /\ pc = "any_running" /\ cur' = NoTid /\ UNCHANGED <<curt, cmds>>
        /\ \/ pc' = "stop_iter" /\ UNCHANGED <<k, th, bug, tracing, op>>
           \/ /\ Running(View) = {} /\ pc' = "loop" /\ op' = "none"
              /\ \/ op = "INJU" /\ Becomes(v) /\ UNCHANGED tracing
                 \/ tracing' = FALSE /\ UNCHANGED <<k, th, bug>>
    BY <1>10 DEF process_any_running, At
  <2> HIDE DEF v
  <2>2. op \notin {"none", "DETC"} /\ tracing
    BY <1>2, <2>1 DEF Course
  <2>3. CASE pc' = "stop_iter" /\ UNCHANGED <<k, th, bug, tracing, op>>
    <3>1. Fits(View)'
      BY <1>00, <1>2, <2>3, BecomesFits
    <3> QED BY <2>2, <2>3, <3>1 DEF Course
  <2>4. CASE pc' = "loop" /\ op' = "none" /\ Becomes(v) /\ UNCHANGED tracing
    <3>1. k' = v.k /\ th' = v.th
      BY <2>4 DEF Becomes
    <3>2. Fits(View)' /\ \A u \in Tids : th'[u].here => th'[u].running
      BY <1>6, <3>1, BecomesFits DEF v
    <3> QED BY <2>2, <2>4, <3>2 DEF Course
  <2>5. CASE Running(View) = {} /\ pc' = "loop" /\ op' = "none" /\ tracing' = FALSE
             /\ UNCHANGED <<k, th, bug>>
    <3>1. Fits(View)'
      BY <1>00, <1>2, <2>5, BecomesFits
    <3>2. \A t \in Tids : th[t].here => ~th[t].running
      BY <1>00, <2>5 DEF Running
    <3> QED BY <2>5, <3>1, <3>2 DEF Course
  <2> QED BY <2>1, <2>3, <2>4, <2>5
<1>11. ASSUME StopIter PROVE Fits(View)' /\ Course'
  <2>1. /\ pc = "stop_iter" /\ pc' \in {"any_running", "process_stop"}
        /\ UNCHANGED <<k, th, bug, tracing, op, curt, cmds>>
    BY <1>11 DEF StopIter, At
  <2>2. Fits(View)'
    BY <1>00, <1>2, <2>1, BecomesFits
  <2>3. op \notin {"none", "DETC"} /\ tracing
    BY <1>2, <2>1 DEF Course
  <2> QED BY <2>1, <2>2, <2>3 DEF Course
<1>12. ASSUME NEW t \in Tids, thread_stop(t) PROVE Fits(View)' /\ Course'
  <2>1. /\ th[t].here /\ th[t].running /\ th[t].proc = cur
        /\ \A u \in Tids : u # t => k'[u] = k[u] /\ th'[u] = th[u]
        /\ Alike(k[t], k'[t])
        /\ th'[t].here /\ th'[t].running /\ th'[t].proc = cur /\ th'[t].stopme
    BY <1>0, <1>12, ThreadStopShape
  <2>2. /\ pc = "process_stop" /\ pc' = "stop_wait" /\ curt' = t
        /\ UNCHANGED <<tracing, op, todo, cur, cmds>>
    BY <1>12 DEF thread_stop, At
  <2> DEFINE v == [k |-> k', th |-> th']
  <2>3. v.k = k' /\ v.th = th'
    OBVIOUS
  <2> HIDE DEF v
  <2>4. \A u \in Tids : FitsTask(k'[u], th'[u])
    <3>1. FitsTask(k'[t], th'[t])
      BY <1>3, <2>1 DEF FitsTask, Alike
    <3> QED BY <1>3, <2>1, <3>1
  <2>5. Announced(v)
    <3>1. \A u \in Tids : /\ th'[u].here <=> th[u].here
                          /\ k'[u].st = k[u].st /\ k'[u].ev = k[u].ev
                          /\ k'[u].child = k[u].child
      BY <2>1 DEF Alike
    <3> QED BY <1>00, <1>2, <2>3, <3>1 DEF Fits, Announced
  <2>6. Fits(v)
    BY <2>3, <2>4, <2>5 DEF Fits
  <2>7. Fits(View)'
    BY <2>3, <2>6, BecomesFits
  <2>8. \A u \in Tids : /\ th'[u].here <=> th[u].here
                        /\ th'[u].running <=> th[u].running
                        /\ th'[u].proc = th[u].proc
    BY <2>1
  <2> QED BY <1>2, <2>1, <2>2, <2>7, <2>8 DEF Course
<1>13. ASSUME StopWait PROVE Fits(View)' /\ Course'
  <2> DEFINE t == curt
             v == thread_wait(View, t)
  <2>1. /\ pc = "stop_wait" /\ CanWait(View, t) /\ pc' = "process_stop"
        /\ UNCHANGED <<tracing, op, todo, cur, cmds>>
        /\ Becomes(IF v.bug = "none" /\ v.th[t].running
                   THEN [v EXCEPT !.bug = "still_running"] ELSE v)
    BY <1>13 DEF StopWait, At
  <2>2. /\ t \in Tids /\ th[t].here /\ th[t].proc = cur /\ th[t].running /\ th[t].stopme
    BY <1>0, <1>2, <2>1 DEF Course, Waits
  <2>3. k[t].ev # "none" /\ v = thread_handle_status(View, t)
    BY <1>00, <1>3, <2>1, <2>2 DEF CanWait, Waitable, thread_wait, FitsTask
  <2>4. Sound(v)
    BY <1>0, <1>00, <2>1, <2>2, WaitSound
  <2> HIDE DEF t, v
  <2>5. k' = v.k /\ th' = v.th /\ v.bug = "none"
    BY <2>1, <2>4 DEF Becomes, Sound, Views
  <2>6. /\ th[t].signo = "none" /\ k[t].ev # "EXEC"
        /\ k[t].ev # "EXIT" => k[t].st \in {"stop", "gstop"}
    BY <1>0, <1>00, <1>2, <2>2, <2>3, ReporterRuns
  <2>7. Handled(View, v, t)
    BY <1>0, <1>00, <1>2, <2>2, <2>3, <2>5, <2>6, StatusShape DEF Aborted
  <2>8. Fits(View)'
    BY <1>0, <1>00, <1>2, <2>2, <2>3, <2>5, <2>7, HandledFits, BecomesFits
  <2>9. op # "none" /\ tracing
    BY <1>2, <2>1, <2>2 DEF Course
  <2>10. op = "DETC" => \A u \in Tids : th'[u].here /\ th'[u].proc # cur => th'[u].running
    <3> SUFFICES ASSUME op = "DETC", NEW u \in Tids, th'[u].here, th'[u].proc # cur
                 PROVE  th'[u].running
      OBVIOUS
    <3>1. u # t
      BY <1>00, <2>2, <2>5, <2>7 DEF Handled, NoThread
    <3>2. th'[u] = th[u] \/ th'[u].running
      BY <1>00, <2>5, <2>7, <3>1 DEF Handled, New
    <3> QED BY <1>2, <2>9, <3>2 DEF Course
  <2> QED BY <1>2, <2>1, <2>8, <2>9, <2>10 DEF Course
<1>14. ASSUME process_stabilize PROVE Fits(View)' /\ Course'
  <2>1. /\ pc = "process_stop" /\ InProc(View, cur) \cap Running(View) = {}
        /\ pc' = IF op = "DETC" THEN "detach" ELSE "stop_iter"
        /\ UNCHANGED <<k, th, tracing, op, todo, cur, curt, cmds>>
    BY <1>14 DEF process_stabilize, At
  <2>2. Fits(View)'
    BY <1>00, <1>2, <2>1, BecomesFits
  <2>3. \A t \in Tids : th[t].here /\ th[t].proc = cur => ~th[t].running
    BY <1>00, <2>1 DEF InProc, Running
  <2> QED BY <1>2, <2>1, <2>2, <2>3 DEF Course
<1>15. ASSUME process_detach PROVE Fits(View)' /\ Course'
  <2>0. /\ pc = "detach" /\ pc' = "loop" /\ op' = "none"
        /\ UNCHANGED <<tracing, todo, curt, cmds>>
    BY <1>15 DEF process_detach, At
  <2>1. \A t \in Tids : IF th[t].here /\ th[t].proc = cur
                        THEN k'[t] = NoTask /\ th'[t] = NoThread
                        ELSE k'[t] = k[t] /\ th'[t] = th[t]
    BY <1>15, <1>00 DEF process_detach, InProc
  <2>2. /\ op = "DETC"
        /\ \A t \in Tids : th[t].here /\ th[t].proc = cur => ~th[t].running
    BY <1>2, <2>0 DEF Course
  <2> DEFINE v == [k |-> k', th |-> th']
  <2>3. v.k = k' /\ v.th = th'
    OBVIOUS
  <2> HIDE DEF v
  <2>4. \A u \in Tids : FitsTask(k'[u], th'[u])
    <3>1. FitsTask(NoTask, NoThread)
      BY DEF FitsTask, NoTask, NoThread
    <3> QED BY <1>3, <2>1, <3>1
  <2>5. Announced(v)
    <3> SUFFICES ASSUME NEW x \in Tids, ~th'[x].here, k'[x].st # "none"
                 PROVE  \E u \in Tids : th'[u].here /\ k'[u].ev = "CLONE" /\ k'[u].child = x
      BY <2>3 DEF Announced
    <3>1. ~th[x].here /\ k[x].st # "none"
      BY <2>1 DEF NoTask
    <3>2. PICK u \in Tids : th[u].here /\ k[u].ev = "CLONE" /\ k[u].child = x
      BY <1>00, <1>2, <3>1 DEF Fits, Announced
    <3>3. th[u].running
      BY <1>3, <3>2 DEF FitsTask
    <3> QED BY <2>1, <2>2, <3>2, <3>3
  <2>6. Fits(View)'
    BY <2>3, <2>4, <2>5, BecomesFits DEF Fits
  <2>7. ~NoThread.here
    BY DEF NoThread
  <2>8. \A u \in Tids : th'[u].here => th'[u] = th[u] /\ th[u].proc # cur
    BY <2>1, <2>7
  <2> QED BY <1>2, <2>0, <2>2, <2>6, <2>8 DEF Course
<1>16. ~ \E p \in Tids : handle_KILL(p)
  BY DEF handle_KILL, Accept, Orderly
<1>17. pc \notin {"process_kill", "kill_wait"}
  BY <1>2 DEF Course
<1>18. ~KillWait /\ ~KillDone /\ \A t \in Tids : ~thread_kill(t)
  BY <1>17 DEF KillWait, KillDone, thread_kill, At
<1>19. CASE Command
  BY <1>7, <1>8, <1>9, <1>16, <1>19 DEF Command
<1>20. CASE Server
  BY <1>10, <1>11, <1>12, <1>13, <1>14, <1>15, <1>18, <1>20 DEF Server
<1> QED BY <1>4, <1>5, <1>19, <1>20 DEF Next

\* After process_attach the view is true.
LEMMA InitTruth == Init => Truth
<1> SUFFICES ASSUME Init PROVE Fits(View) /\ Course
  BY DEF Truth
<1> DEFINE q == [NoTask EXCEPT !.st = "stop", !.tgid = Leader]
           w == [NoThread EXCEPT !.here = TRUE, !.proc = Leader,
                                 !.setoptions = TRUE, !.notified = TRUE]
<1>1. /\ k = [t \in Tids |-> IF t = Leader THEN q ELSE NoTask]
      /\ th = [t \in Tids |-> IF t = Leader THEN w ELSE NoThread]
      /\ tracing = FALSE /\ pc = "loop" /\ op = "none"
  BY DEF Init
<1>2. NoTask \in Task /\ NoTask.st = "none" /\ NoTask.ev = "none"
      /\ NoTask.tgid = NoTid /\ NoTask.ppid = NoTid
      /\ NoThread \in Thread /\ ~NoThread.here /\ ~NoThread.running
  BY NoTaskType DEF NoTask, NoThread
<1>3. q.st = "stop" /\ q.ev = "none" /\ w.here /\ ~w.running /\ w.proc = Leader
  BY <1>2 DEF Task, Thread
<1> HIDE DEF q, w
<1>4. \A t \in Tids : \/ k[t] = q /\ th[t] = w
                      \/ k[t] = NoTask /\ th[t] = NoThread
  BY <1>1
<1>5. \A t \in Tids : FitsTask(k[t], th[t])
  BY <1>2, <1>3, <1>4, LeaderAssumption DEF FitsTask
<1>6. \A t \in Tids : ~th[t].here => k[t].st = "none"
  BY <1>2, <1>3, <1>4
<1>7. Fits(View)
  BY <1>5, <1>6 DEF Fits, Announced, View
<1>8. \A t \in Tids : ~th[t].running
  BY <1>2, <1>3, <1>4
<1> QED BY <1>1, <1>7, <1>8 DEF Course

\* In an orderly program the server's view is true in every reachable state.
THEOREM Truthfulness == ASSUME Orderly PROVE Spec => [](Inv /\ Truth)
<1>1. Init => Inv /\ Truth
  BY InitInv, InitTruth
<1>2. (Inv /\ Truth) /\ [Next]_vars => (Inv /\ Truth)'
  <2> SUFFICES ASSUME Inv, Truth, [Next]_vars PROVE Inv' /\ Truth'
    OBVIOUS
  <2>1. Inv'
    BY NextInv
  <2>2. bug' = "none" => Fits(View)' /\ Course'
    BY NextTruth
  <2> QED BY <2>1, <2>2 DEF Truth
<1> QED BY <1>1, <1>2, PTL DEF Spec

\* A thread with state.running = false exists, is in a ptrace stop and has
\* nothing left to report, so that every ptrace request to it succeeds.
THEOREM Truthful == ASSUME Orderly PROVE Spec => []ViewTruthful
<1>1. Inv /\ Truth => ViewTruthful
  BY DEF Truth, Fits, FitsTask, View, ViewTruthful
<1> QED BY <1>1, Truthfulness, PTL

\* Once STOP has answered no thread runs, not even one the server has not
\* heard of.
THEOREM AllStopped == ASSUME Orderly PROVE Spec => []StopMeansStopped
<1>1. Inv /\ Truth => StopMeansStopped
  <2> SUFFICES ASSUME Inv, Truth, bug = "none", pc = "loop", ~tracing, NEW t \in Tids
               PROVE  k[t].st \notin {"run", "born"}
    BY DEF StopMeansStopped
  <2>1. Sound(View) /\ Fits(View) /\ Course /\ FitsTask(k[t], th[t])
    BY DEF Inv, Truth, Fits, View
  <2>2. CASE th[t].here
    BY <2>1, <2>2 DEF Course, FitsTask
  <2>3. CASE ~th[t].here
    <3>1. \A u \in Tids : k[u].ev = "none"
      BY <2>1, QuietWhenStopped
    <3>2. k[t].st = "none"
      BY <2>1, <2>3, <3>1 DEF Fits, Announced, View
    <3> QED BY <3>2
  <2> QED BY <2>2, <2>3
<1> QED BY <1>1, Truthfulness, PTL

\* While the trace runs and no command is in progress, every known thread has
\* been continued.
THEOREM AllRun == ASSUME Orderly PROVE Spec => []TracingRuns
<1>1. Inv /\ Truth => TracingRuns
  BY DEF Truth, Course, TracingRuns
<1> QED BY <1>1, Truthfulness, PTL

------------------------------------------------------------------------------
(* No signal of the application is lost                                    *)

B(x) == IF x THEN 1 ELSE 0

\* The signals of the application that are on their way to the task q: one
\* pending, one reported, or one held by the server in the thread_t w.
Owed(q, w) == B("USR" \in q.pend) + B(q.ev = "USR") + B(w.signo = "USR")

\* What was sent was delivered or is on its way; and where it waits, the next
\* PTRACE_CONT delivers it (one that leaves a group stop would not).
Balanced(q, w) ==
    q.st \notin {"none", "zombie"} =>
        /\ q.ev = "USR" => q.st = "stop"
        /\ w.signo = "USR" => q.st = "stop"
        /\ q.sent = q.got + Owed(q, w)

Conserved(s) == \A t \in Tids : Balanced(s.k[t], s.th[t])

\* The set of places that SignalConserved counts has Owed elements.
LEMMA CountOwed ==
  ASSUME NEW q, NEW w
  PROVE  Cardinality({x \in {"pend", "ev", "signo"} :
            \/ x = "pend" /\ "USR" \in q.pend
            \/ x = "ev" /\ q.ev = "USR"
            \/ x = "signo" /\ w.signo = "USR"}) = Owed(q, w)
<1> DEFINE S == {x \in {"pend", "ev", "signo"} :
                    \/ x = "pend" /\ "USR" \in q.pend
                    \/ x = "ev" /\ q.ev = "USR"
                    \/ x = "signo" /\ w.signo = "USR"}
           A == IF "USR" \in q.pend THEN {"pend"} ELSE {}
           C == IF q.ev = "USR" THEN A \cup {"ev"} ELSE A
           D == IF w.signo = "USR" THEN C \cup {"signo"} ELSE C
<1>1. S = D
  OBVIOUS
<1>2. IsFiniteSet({}) /\ Cardinality({}) = 0
  BY FS_EmptySet
<1>3. IsFiniteSet(A) /\ Cardinality(A) = B("USR" \in q.pend) /\ A \subseteq {"pend"}
  BY FS_Singleton, <1>2 DEF B
<1> HIDE DEF A
<1>4. IsFiniteSet(C) /\ Cardinality(C) = Cardinality(A) + B(q.ev = "USR") /\ C \subseteq {"pend", "ev"}
  <2>1. IsFiniteSet(A \cup {"ev"}) /\ Cardinality(A \cup {"ev"}) = Cardinality(A) + 1
    BY <1>3, FS_AddElement
  <2>2. Cardinality(A) \in Nat
    BY <1>3, FS_CardinalityType
  <2> QED BY <1>3, <2>1, <2>2 DEF B
<1> HIDE DEF C
<1>5. Cardinality(D) = Cardinality(C) + B(w.signo = "USR")
  <2>1. Cardinality(C \cup {"signo"}) = Cardinality(C) + 1
    BY <1>4, FS_AddElement
  <2>2. Cardinality(C) \in Nat
    BY <1>4, FS_CardinalityType
  <2> QED BY <2>1, <2>2 DEF B
<1> HIDE DEF D, S
<1>6. Cardinality(S) = Owed(q, w)
  BY <1>1, <1>3, <1>4, <1>5 DEF Owed
<1> QED BY <1>6 DEF S

\* A task that is alike, with the same held signal, is as balanced.
LEMMA AlikeBalanced ==
  ASSUME ~Handlers, NEW q, NEW r, NEW w, NEW v, Alike(q, r), Balanced(q, w),
         v.signo = w.signo
  PROVE  Balanced(r, v)
  BY DEF Alike, Balanced, Owed

\* Taking a status moves a reported signal to the server's hand.
LEMMA ReapedBalanced ==
  ASSUME NEW q, NEW r, NEW w, NEW v, Reaped(q, r), Balanced(q, w), w.signo = "none",
         v.signo = "USR" <=> q.ev = "USR", q.sent \in Nat, q.got \in Nat
  PROVE  Balanced(r, v)
  BY DEF Reaped, Balanced, Owed, B

\* PTRACE_CONT delivers the reported or held signal.
LEMMA ResumedBalanced ==
  ASSUME ~Handlers, NEW q, NEW r, NEW w, NEW v, NEW sig, Resumed(q, r, sig), Balanced(q, w),
         q.st \in {"stop", "gstop"}, v.signo = "none",
         w.signo = "none" \/ q.ev = "none",
         sig = "USR" <=> q.ev = "USR" \/ w.signo = "USR",
         q.sent \in Nat, q.got \in Nat
  PROVE  Balanced(r, v)
  BY DEF Resumed, Balanced, Owed, B

\* The handler of a known thread's status loses no signal.
LEMMA HandledConserved ==
  ASSUME ~Handlers, NEW s, Sound(s), Fits(s), Conserved(s), NEW t \in Tids, s.th[t].here,
         s.k[t].ev # "none", NEW h, Sound(h), Handled(s, h, t)
  PROVE  Conserved(h)
<1>1. ASSUME NEW u \in Tids, u # t PROVE Balanced(h.k[u], h.th[u])
  <2>1. Alike(s.k[u], h.k[u]) /\ Balanced(s.k[u], s.th[u])
    BY <1>1 DEF Handled, Conserved
  <2>2. h.th[u].signo = s.th[u].signo
    <3>1. ~s.th[u].here => s.th[u].signo = "none"
      BY DEF Sound
    <3> QED BY <1>1, <3>1 DEF Handled, New, Adopted
  <2> QED BY <2>1, <2>2, AlikeBalanced
<1>2. Balanced(h.k[t], h.th[t])
  <2>0. /\ Balanced(s.k[t], s.th[t]) /\ s.th[t].signo = "none"
        /\ s.k[t].sent \in Nat /\ s.k[t].got \in Nat
    <3>1. s.k[t] \in Task
      BY DEF Sound, Views
    <3> QED BY <3>1, ReporterRuns, MaxUsrAssumption DEF Conserved, Task
  <2>1. CASE s.k[t].ev = "EXIT"
    BY <2>1 DEF Handled, Balanced, NoTask
  <2>2. CASE s.k[t].ev # "EXIT"
    <3>1. s.k[t].st \in {"stop", "gstop"}
      BY <2>2, ReporterRuns
    <3>2. CASE s.th[t].stopme
      <4>1. /\ Reaped(s.k[t], h.k[t])
            /\ h.th[t].signo = "USR" <=> s.k[t].ev = "USR"
        BY <2>2, <3>2 DEF Handled
      <4> QED BY <2>0, <4>1, ReapedBalanced
    <3>3. CASE ~s.th[t].stopme
      <4>1. Resumed(s.k[t], h.k[t], s.k[t].ev) /\ h.th[t].running
        BY <2>2, <3>3 DEF Handled
      <4>2. h.th[t].signo = "none"
        BY <4>1 DEF Sound
      <4> QED BY <2>0, <3>1, <4>1, <4>2, ResumedBalanced
    <3> QED BY <3>2, <3>3
  <2> QED BY <2>1, <2>2
<1> QED BY <1>1, <1>2 DEF Conserved

\* The first status of an unknown thread loses no signal.
LEMMA WelcomedConserved ==
  ASSUME ~Handlers, NEW s, Sound(s), Conserved(s), NEW t \in Tids, ~s.th[t].here,
         s.k[t].st = "stop", s.k[t].ev = "STOP", NEW h, Welcomed(s, h, t)
  PROVE  Conserved(h)
<1>1. ASSUME NEW u \in Tids, u # t PROVE Balanced(h.k[u], h.th[u])
  <2>1. Alike(s.k[u], h.k[u]) /\ Balanced(s.k[u], s.th[u]) /\ h.th[u] = s.th[u]
    BY <1>1 DEF Welcomed, Conserved
  <2> QED BY <2>1, AlikeBalanced
<1>2. Balanced(h.k[t], h.th[t])
  <2>1. /\ Balanced(s.k[t], s.th[t]) /\ s.th[t].signo = "none"
        /\ s.k[t].sent \in Nat /\ s.k[t].got \in Nat
    <3>1. s.k[t] \in Task
      BY DEF Sound, Views
    <3> QED BY <3>1, MaxUsrAssumption DEF Conserved, Sound, Task
  <2>2. Resumed(s.k[t], h.k[t], "none") /\ h.th[t].signo = "none"
    BY DEF Welcomed, New, Adopted
  <2> QED BY <2>1, <2>2, ResumedBalanced
<1> QED BY <1>1, <1>2 DEF Conserved

\* Resuming every thread delivers what the server held, once.
LEMMA AllResumedConserved ==
  ASSUME ~Handlers, NEW s, Sound(s), Fits(s), Conserved(s), NEW r, AllResumed(s, r)
  PROVE  Conserved(r)
<1> SUFFICES ASSUME NEW t \in Tids PROVE Balanced(r.k[t], r.th[t])
  BY DEF Conserved
<1>1. Balanced(s.k[t], s.th[t]) /\ FitsTask(s.k[t], s.th[t])
      /\ s.k[t].sent \in Nat /\ s.k[t].got \in Nat
  <2>1. s.k[t] \in Task
    BY DEF Sound, Views
  <2> QED BY <2>1, MaxUsrAssumption DEF Conserved, Fits, Task
<1>2. CASE s.th[t].here /\ ~s.th[t].running
  <2>1. r.th[t].signo = "none" /\ Resumed(s.k[t], r.k[t], s.th[t].signo)
    BY <1>2 DEF AllResumed
  <2>2. s.k[t].st \in {"stop", "gstop"} /\ s.k[t].ev = "none"
    BY <1>1, <1>2 DEF FitsTask
  <2> QED BY <1>1, <2>1, <2>2, ResumedBalanced
<1>3. CASE ~(s.th[t].here /\ ~s.th[t].running)
  BY <1>1, <1>3 DEF AllResumed
<1> QED BY <1>2, <1>3

\* Views that conserve signals are the next state's.
LEMMA BecomesConserved ==
  ASSUME NEW v, Conserved(v), k' = v.k, th' = v.th
  PROVE  Conserved(View)'
  BY DEF Conserved, View, Balanced, Owed

\* What the kernel and the program do loses no signal.
LEMMA KernelConserved ==
  ASSUME ~Handlers, Sound(View), Fits(View), Conserved(View), NEW t \in Tids, Kernel(t),
         Env \subseteq {"signal", "clone", "fork", "exit"}
  PROVE  Conserved(View)'
<1>0. th' = th
  BY KernelCases
<1>1. /\ \A u \in Tids : Balanced(k[u], th[u])
      /\ \A u \in Tids : k[u].ev # "none" => k[u].st \in {"stop", "gstop", "zombie"}
      /\ \A u \in Tids : th[u].signo # "none" => th[u].here /\ ~th[u].running
      /\ \A u \in Tids : FitsTask(k[u], th[u])
  BY DEF Conserved, View, Sound, Fits
<1>2. k[t].sent \in Nat /\ k[t].got \in Nat /\ k[t].tgid \in Tids \cup {NoTid}
  <2>1. k[t] \in Task
    BY TasksOK
  <2> QED BY <2>1, MaxUsrAssumption DEF Task
<1> SUFFICES \A u \in Tids : Balanced(k'[u], th[u])
  <2> DEFINE v == [k |-> k', th |-> th]
  <2>1. v.k = k' /\ v.th = th
    OBVIOUS
  <2> HIDE DEF v
  <2>2. Conserved(v)
    BY <2>1 DEF Conserved
  <2> QED BY <1>0, <2>1, <2>2, BecomesConserved
<1>3. ASSUME Deliver(t) PROVE \A u \in Tids : Balanced(k'[u], th[u])
  <2>1. /\ k[t].st \in {"run", "born"} /\ k[t].ev = "none" /\ th[t].signo = "none"
        /\ \A u \in Tids : u # t => k'[u] = k[u]
    BY <1>1, <1>3, DeliverShape DEF FitsTask
  <2>2. PICK sig \in k[t].pend :
              /\ SameOrigin(k[t], k'[t]) /\ k'[t].ev = sig /\ k'[t].pend = k[t].pend \ {sig}
              /\ k'[t].st = IF sig = "GSTOP" THEN "gstop" ELSE "stop"
    BY <1>3, DeliverShape
  <2>3. Balanced(k'[t], th[t])
    <3>1. k[t].sent = k[t].got + Owed(k[t], th[t])
      BY <1>1, <2>1 DEF Balanced
    <3>2. Owed(k[t], th[t]) = Owed(k'[t], th[t])
      <4>1. CASE sig = "USR"
        BY <2>1, <2>2, <4>1 DEF Owed, B
      <4>2. CASE sig # "USR"
        BY <2>1, <2>2, <4>2 DEF Owed, B
      <4> QED BY <4>1, <4>2
    <3> QED BY <2>1, <2>2, <3>1, <3>2 DEF Balanced, SameOrigin
  <2> QED BY <1>1, <2>1, <2>3
<1>4. ASSUME SendUsr(t) PROVE \A u \in Tids : Balanced(k'[u], th[u])
  <2>1. /\ k[t].st \notin {"none", "zombie"} /\ "USR" \notin k[t].pend
        /\ \A u \in Tids : u # t => k'[u] = k[u]
        /\ k'[t].st = k[t].st /\ k'[t].ev = k[t].ev
        /\ k'[t].got = k[t].got /\ k'[t].sent = k[t].sent + 1 /\ "USR" \in k'[t].pend
    BY <1>4, SendUsrShape
  <2>2. Balanced(k'[t], th[t])
    BY <1>1, <1>2, <2>1 DEF Balanced, Owed, B
  <2> QED BY <1>1, <2>1, <2>2
<1>5. ASSUME NEW c \in Tids, NEW tg \in Tids \cup {NoTid}, NewTask(t, c, tg)
      PROVE  \A u \in Tids : Balanced(k'[u], th[u])
  <2>1. /\ c # t /\ k[t].st = "run" /\ ~th[c].here
        /\ \A u \in Tids : u # t /\ u # c => k'[u] = k[u]
        /\ k'[t].st = "stop" /\ k'[t].ev = "CLONE"
        /\ SameOrigin(k[t], k'[t]) /\ k'[t].pend = k[t].pend
        /\ k'[c].st = "born" /\ k'[c].ev = "none"
        /\ k'[c].sent = 0 /\ k'[c].got = 0 /\ k'[c].pend = {"STOP"}
    BY <1>5, NewTaskShape
  <2>2. k[t].ev = "none" /\ th[c].signo = "none"
    BY <1>1, <2>1
  <2>3. Balanced(k'[t], th[t])
    BY <1>1, <2>1, <2>2 DEF Balanced, Owed, B, SameOrigin
  <2>4. Balanced(k'[c], th[c])
    BY <2>1, <2>2 DEF Balanced, Owed, B
  <2> QED BY <1>1, <2>1, <2>3, <2>4
<1>6. ASSUME Exit(t) PROVE \A u \in Tids : Balanced(k'[u], th[u])
  <2>1. k'[t].st = "zombie" /\ \A u \in Tids : u # t => k'[u] = k[u]
    BY <1>6, ExitShape
  <2>2. Balanced(k'[t], th[t])
    BY <2>1 DEF Balanced
  <2> QED BY <1>1, <2>1, <2>2
<1> QED BY <1>2, <1>3, <1>4, <1>5, <1>6, KernelCases

\* Every step conserves the application's signals.
LEMMA NextConserved ==
  ASSUME Orderly, ~Handlers, Inv, Inv', Truth, bug = "none" => Conserved(View),
         [Next]_vars, bug' = "none"
  PROVE  Conserved(View)'
<1>0. Sound(View) /\ NoStaleStopme /\ Waits /\ Sound(View)'
  BY DEF Inv
<1>00. View.k = k /\ View.th = th /\ View.bug = bug
  BY DEF View
<1>1. CASE UNCHANGED <<k, th, bug>>
  BY <1>1, <1>00, BecomesConserved
<1>2. CASE UNCHANGED vars
  BY <1>1, <1>2 DEF vars
<1> SUFFICES ASSUME Next PROVE Conserved(View)'
  BY <1>2
<1>3. bug = "none" /\ Fits(View) /\ Course /\ Conserved(View)
  <2>1. bug = "none"
    BY DEF Next, Command, Server, WaitMain, Kernel, At, Accept, handle_STRT, handle_STOP,
           handle_INJL, handle_INJU, StopFirst, handle_DETC, handle_KILL,
           process_any_running, StopIter, thread_stop, thread_kill, StopWait,
           process_stabilize, process_detach, KillWait, KillDone
  <2> QED BY <2>1 DEF Truth
<1>4. \A t \in Tids : FitsTask(k[t], th[t]) /\ Balanced(k[t], th[t])
  BY <1>00, <1>3 DEF Fits, Conserved
<1>5. ASSUME NEW t \in Tids, Kernel(t) PROVE Conserved(View)'
  BY <1>0, <1>3, <1>5, KernelConserved DEF Orderly
<1>6. ASSUME NEW v, Sound(v), NEW t \in Tids, th[t].here, k[t].ev # "none",
             v = thread_handle_status(View, t), k' = v.k, th' = v.th, v.bug = "none"
      PROVE  Conserved(View)'
  <2>1. /\ th[t].signo = "none" /\ k[t].ev # "EXEC"
        /\ k[t].ev # "EXIT" => k[t].st \in {"stop", "gstop"}
    BY <1>0, <1>00, <1>3, <1>6, ReporterRuns
  <2>2. Handled(View, v, t)
    BY <1>0, <1>00, <1>3, <1>6, <2>1, StatusShape DEF Aborted
  <2> QED BY <1>0, <1>00, <1>3, <1>6, <2>2, HandledConserved, BecomesConserved
<1>7. ASSUME NEW t \in Tids, WaitMain(t) PROVE Conserved(View)'
  <2> DEFINE v == wait_main_one(View, t)
  <2>1. k[t].ev # "none" /\ Becomes(v)
    BY <1>7 DEF WaitMain, Waitable
  <2>2. k' = v.k /\ th' = v.th /\ v.bug = "none"
    BY <2>1 DEF Becomes
  <2>3. Sound(v)
    BY <1>0, <1>00, <2>1, WaitMainSound
  <2>4. CASE th[t].here
    <3>1. v = thread_handle_status(View, t)
      BY <1>00, <2>4 DEF wait_main_one
    <3> QED BY <1>6, <2>1, <2>2, <2>3, <2>4, <3>1
  <2>5. CASE ~th[t].here
    <3>1. k[t].st = "stop" /\ k[t].ev = "STOP"
      BY <1>0, <1>00, <1>4, <2>1, <2>5 DEF Sound, FitsTask
    <3> HIDE DEF v
    <3>2. Welcomed(View, v, t)
      BY <1>0, <1>00, <1>3, <2>2, <2>5, <3>1, UnknownShape DEF Refused, v
    <3> QED BY <1>0, <1>00, <1>3, <2>2, <2>5, <3>1, <3>2, WelcomedConserved, BecomesConserved
  <2> QED BY <2>4, <2>5
<1>8. ASSUME Becomes(process_continue_all(View)) PROVE Conserved(View)'
  <2> DEFINE v == process_continue_all(View)
  <2>1. AllResumed(View, v)
    BY <1>0, <1>00, <1>3, <1>4, ContinueAllShape DEF FitsTask
  <2>2. k' = v.k /\ th' = v.th
    BY <1>8 DEF Becomes
  <2> HIDE DEF v
  <2> QED BY <1>0, <1>3, <2>1, <2>2, AllResumedConserved, BecomesConserved
<1>9. ASSUME handle_STRT PROVE Conserved(View)'
  BY <1>1, <1>8, <1>9 DEF handle_STRT
<1>10. ASSUME process_any_running PROVE Conserved(View)'
  BY <1>1, <1>8, <1>10 DEF process_any_running
<1>11. ASSUME NEW t \in Tids, thread_stop(t) PROVE Conserved(View)'
  <2>1. /\ \A u \in Tids : u # t => k'[u] = k[u] /\ th'[u] = th[u]
        /\ Alike(k[t], k'[t]) /\ th'[t].signo = th[t].signo
    BY <1>0, <1>11, ThreadStopShape
  <2>2. Balanced(k'[t], th'[t])
    BY <1>4, <2>1, AlikeBalanced
  <2>3. \A u \in Tids : Balanced(k'[u], th'[u])
    BY <1>4, <2>1, <2>2
  <2> DEFINE v == [k |-> k', th |-> th']
  <2>4. v.k = k' /\ v.th = th'
    OBVIOUS
  <2> HIDE DEF v
  <2> QED BY <2>3, <2>4, BecomesConserved DEF Conserved
<1>12. ASSUME StopWait PROVE Conserved(View)'
  <2> DEFINE t == curt
             v == thread_wait(View, t)
  <2>1. /\ pc = "stop_wait" /\ CanWait(View, t)
        /\ Becomes(IF v.bug = "none" /\ v.th[t].running
                   THEN [v EXCEPT !.bug = "still_running"] ELSE v)
    BY <1>12 DEF StopWait, At
  <2>2. t \in Tids /\ th[t].here
    BY <1>0, <1>3, <2>1 DEF Waits
  <2>3. k[t].ev # "none" /\ v = thread_handle_status(View, t)
    BY <1>00, <1>4, <2>1, <2>2 DEF CanWait, Waitable, thread_wait, FitsTask
  <2>4. Sound(v)
    BY <1>0, <1>00, <2>1, <2>2, WaitSound
  <2> HIDE DEF t, v
  <2>5. k' = v.k /\ th' = v.th /\ v.bug = "none"
    BY <2>1, <2>4 DEF Becomes, Sound, Views
  <2> QED BY <1>6, <2>2, <2>3, <2>4, <2>5
<1>13. ASSUME process_detach PROVE Conserved(View)'
  <2>1. \A t \in Tids : k'[t] = NoTask \/ (k'[t] = k[t] /\ th'[t] = th[t])
    BY <1>13, <1>00 DEF process_detach
  <2>2. \A w : Balanced(NoTask, w)
    BY DEF Balanced, NoTask
  <2>3. \A t \in Tids : Balanced(k'[t], th'[t])
    BY <1>4, <2>1, <2>2
  <2> DEFINE v == [k |-> k', th |-> th']
  <2>4. v.k = k' /\ v.th = th'
    OBVIOUS
  <2> HIDE DEF v
  <2> QED BY <2>3, <2>4, BecomesConserved DEF Conserved
<1>14. ASSUME \/ handle_STOP \/ handle_INJL \/ handle_INJU \/ StopIter \/ process_stabilize
              \/ \E p \in Tids : handle_DETC(p)
       PROVE Conserved(View)'
  BY <1>1, <1>3, <1>14 DEF handle_STOP, handle_INJL, handle_INJU, StopFirst, StopIter,
     process_stabilize, handle_DETC
<1>15. ~ \E p \in Tids : handle_KILL(p)
  BY DEF handle_KILL, Accept, Orderly
<1>16. ~KillWait /\ ~KillDone /\ \A t \in Tids : ~thread_kill(t)
  <2>1. pc \notin {"process_kill", "kill_wait"}
    BY <1>3 DEF Course
  <2> QED BY <2>1 DEF KillWait, KillDone, thread_kill, At
<1>17. CASE Command
  BY <1>9, <1>14, <1>15, <1>17 DEF Command
<1>18. CASE Server
  BY <1>10, <1>11, <1>12, <1>13, <1>14, <1>16, <1>18 DEF Server
<1> QED BY <1>5, <1>7, <1>17, <1>18 DEF Next

\* Where no handler of new threads is called, an application's signal that a
\* thread_stop met on its way is neither lost nor delivered twice.  (A
\* handler is called with fncall_call, which forgets pending signals.)
THEOREM Conservation == ASSUME Orderly, ~Handlers PROVE Spec => []SignalConserved
<1> DEFINE C == bug = "none" => Conserved(View)
<1>1. Init => C
  <2> SUFFICES ASSUME Init PROVE Conserved(View)
    OBVIOUS
  <2>1. /\ NoTask.sent = 0 /\ NoTask.got = 0 /\ NoTask.pend = {} /\ NoTask.ev = "none"
        /\ NoThread.signo = "none" /\ NoTask \in Task /\ NoThread \in Thread
    BY NoTaskType DEF NoTask, NoThread
  <2>2. \A t \in Tids : /\ k[t].sent = 0 /\ k[t].got = 0 /\ k[t].pend = {} /\ k[t].ev = "none"
                        /\ th[t].signo = "none"
    BY <2>1 DEF Init, Task, Thread
  <2> QED BY <2>2 DEF Conserved, Balanced, Owed, B, View
<1>2. Inv /\ Inv' /\ Truth /\ C /\ [Next]_vars => C'
  BY NextConserved
<1>3. C => SignalConserved
  <2> SUFFICES ASSUME Conserved(View), NEW t \in Tids, Live(k, t)
               PROVE  k[t].sent = k[t].got + Cardinality({x \in {"pend", "ev", "signo"} :
                        \/ x = "pend" /\ "USR" \in k[t].pend
                        \/ x = "ev" /\ k[t].ev = "USR"
                        \/ x = "signo" /\ th[t].signo = "USR"})
    BY DEF SignalConserved
  <2>1. k[t].sent = k[t].got + Owed(k[t], th[t])
    BY DEF Conserved, Balanced, Live, View
  <2> QED BY <2>1, CountOwed
<1> HIDE DEF C
<1> QED BY <1>1, <1>2, <1>3, Truthfulness, PTL DEF Spec

------------------------------------------------------------------------------
(* The server does not abort                                               *)

\* One process, whose threads do not end while they are traced.
Steady ==
    /\ Env \subseteq {"signal", "clone"}
    /\ Commands \subseteq {"STRT", "STOP", "INJL", "INJU"}

\* Every task is a thread of the first process, whose first thread has been
\* announced, and a clone event names a task that exists.
SingleProcess(s) ==
    /\ s.th[Leader].here /\ s.th[Leader].notified
    /\ \A t \in Tids :
        /\ s.th[t].here => s.th[t].proc = Leader
        /\ s.k[t].st # "none" => s.k[t].tgid = Leader
        /\ s.k[t].ev # "EXIT"
        /\ s.k[t].ev = "CLONE" => s.k[s.k[t].child].st # "none"

\* The views of one process are the next state's.
LEMMA BecomesSingle ==
  ASSUME NEW v, SingleProcess(v), k' = v.k, th' = v.th
  PROVE  SingleProcess(View)'
  BY DEF SingleProcess, View

\* A status of a known thread of the process is handled without an abort.
LEMMA SteadyHandled ==
  ASSUME NEW s, Sound(s), s.bug = "none", Fits(s), SingleProcess(s), NEW t \in Tids,
         s.th[t].here, s.k[t].ev # "none", NEW h, h = thread_handle_status(s, t)
  PROVE  Handled(s, h, t) /\ SingleProcess(h)
<1>0. /\ s.th[Leader].here /\ s.th[Leader].notified /\ s.th[Leader].proc = Leader
      /\ s.th[t].proc = Leader /\ s.k[t].ev # "EXIT"
  BY LeaderAssumption DEF SingleProcess
<1>1. /\ s.th[t].signo = "none" /\ s.k[t].ev # "EXEC" /\ s.k[t].st \in {"stop", "gstop"}
  BY <1>0, ReporterRuns
<1>2. Handled(s, h, t)
  <2>1. s.k[t].ev = "CLONE" => s.k[t].child \in Tids
    BY DEF Sound
  <2>2. s.k[t].ev = "CLONE" => s.k[s.k[t].child].tgid = Leader
    BY <2>1 DEF SingleProcess
  <2>3. ~Aborted(s, h, t)
    BY <1>0, <2>2, LeaderAssumption DEF Aborted
  <2> QED BY <1>1, <2>3, StatusShape
<1>3. ASSUME NEW u \in Tids, u # t
      PROVE  /\ h.th[u].here => h.th[u].proc = Leader
             /\ h.k[u].st = s.k[u].st /\ h.k[u].ev = s.k[u].ev
             /\ h.k[u].tgid = s.k[u].tgid /\ h.k[u].child = s.k[u].child
             /\ s.th[u].here => h.th[u] = s.th[u]
  <2>1. Alike(s.k[u], h.k[u]) /\ (h.th[u] = s.th[u] \/ New(s, u, h.th[u]))
    BY <1>2, <1>3 DEF Handled
  <2>2. New(s, u, h.th[u]) => h.th[u].proc = Leader
    <3> SUFFICES ASSUME New(s, u, h.th[u]) PROVE h.th[u].proc = Leader
      OBVIOUS
    <3>1. Adopted(s, u, h.th[u])
      BY DEF New
    <3>2. s.k[u].tgid = Leader
      BY <3>1, AdoptedExists DEF SingleProcess
    <3> QED BY <1>0, <3>1, <3>2, LeaderAssumption DEF Adopted
  <2>3. s.th[u].here => h.th[u] = s.th[u]
    BY <2>1 DEF New
  <2> QED BY <2>1, <2>2, <2>3 DEF Alike, SingleProcess
<1>4. /\ h.th[t].here /\ h.th[t].proc = Leader
      /\ s.th[t].notified => h.th[t].notified
      /\ h.k[t].st # "none" /\ h.k[t].tgid = s.k[t].tgid /\ h.k[t].ev = "none"
  BY <1>0, <1>1, <1>2 DEF Handled, Reaped, Resumed
<1>5. h.th[Leader].here /\ h.th[Leader].notified
  BY <1>0, <1>3, <1>4, LeaderAssumption
<1>6. \A u \in Tids : h.k[u].st # "none" <=> s.k[u].st # "none"
  BY <1>1, <1>3, <1>4
<1>7. \A u \in Tids : h.k[u].tgid = s.k[u].tgid
  BY <1>3, <1>4
<1>8. \A u \in Tids : h.k[u].ev = "CLONE" => h.k[h.k[u].child].st # "none"
  <2> SUFFICES ASSUME NEW u \in Tids, h.k[u].ev = "CLONE"
               PROVE  h.k[h.k[u].child].st # "none"
    OBVIOUS
  <2>1. u # t /\ s.k[u].ev = "CLONE" /\ h.k[u].child = s.k[u].child
    BY <1>3, <1>4
  <2>2. s.k[u].child \in Tids /\ s.k[s.k[u].child].st # "none"
    BY <2>1 DEF Sound, SingleProcess
  <2> QED BY <1>6, <2>1, <2>2
<1>9. \A u \in Tids : h.k[u].ev # "EXIT" /\ (h.th[u].here => h.th[u].proc = Leader)
  BY <1>3, <1>4 DEF SingleProcess
<1> QED BY <1>2, <1>5, <1>6, <1>7, <1>8, <1>9 DEF SingleProcess

\* The first status of an unknown thread of the process is handled without an
\* abort.
LEMMA SteadyWelcomed ==
  ASSUME NEW s, Sound(s), s.bug = "none", Fits(s), SingleProcess(s), NEW t \in Tids,
         ~s.th[t].here, s.k[t].st = "stop", s.k[t].ev = "STOP",
         NEW h, h = wait_main_one(s, t)
  PROVE  h.bug = "none" /\ SingleProcess(h)
<1>0. /\ s.th[Leader].here /\ s.th[Leader].notified /\ s.th[Leader].proc = Leader
      /\ s.k[t].tgid = Leader /\ t # Leader
  BY LeaderAssumption DEF SingleProcess
<1>1. \A w : Adopted(s, t, w) => w.proc = Leader
  BY <1>0, LeaderAssumption DEF Adopted
<1>2. Welcomed(s, h, t)
  BY <1>0, <1>1, UnknownShape, LeaderAssumption DEF Refused
<1>3. \A u \in Tids : u # t => h.th[u] = s.th[u] /\ Alike(s.k[u], h.k[u])
  BY <1>2 DEF Welcomed
<1>4. /\ h.th[t].proc = Leader /\ h.k[t].st # "none" /\ h.k[t].tgid = Leader
      /\ h.k[t].ev = "none"
  BY <1>0, <1>1, <1>2 DEF Welcomed, New, Resumed
<1>5. \A u \in Tids : /\ h.k[u].st # "none" <=> s.k[u].st # "none"
                      /\ h.k[u].tgid = s.k[u].tgid
  BY <1>0, <1>3, <1>4 DEF Alike
<1>6. \A u \in Tids : h.k[u].ev = "CLONE" => h.k[h.k[u].child].st # "none"
  <2> SUFFICES ASSUME NEW u \in Tids, h.k[u].ev = "CLONE"
               PROVE  h.k[h.k[u].child].st # "none"
    OBVIOUS
  <2>1. s.k[u].ev = "CLONE" /\ h.k[u].child = s.k[u].child
    BY <1>3, <1>4 DEF Alike
  <2>2. s.k[u].child \in Tids /\ s.k[s.k[u].child].st # "none"
    BY <2>1 DEF Sound, SingleProcess
  <2> QED BY <1>5, <2>1, <2>2
<1>7. \A u \in Tids : h.k[u].ev # "EXIT" /\ (h.th[u].here => h.th[u].proc = Leader)
  BY <1>3, <1>4 DEF SingleProcess, Alike
<1>8. h.th[Leader].here /\ h.th[Leader].notified
  BY <1>0, <1>3, LeaderAssumption
<1> QED BY <1>2, <1>5, <1>6, <1>7, <1>8 DEF SingleProcess, Welcomed

\* The kernel and the program leave one process.
LEMMA KernelSingle ==
  ASSUME Steady, Sound(View), Fits(View), SingleProcess(View), NEW t \in Tids, Kernel(t)
  PROVE  SingleProcess(View)' /\ bug' = "none"
<1>0. bug' = "none" /\ th' = th
  BY KernelCases DEF Steady
<1>1. /\ \A u \in Tids : /\ k[u].st # "none" => k[u].tgid = Leader
                         /\ k[u].ev # "EXIT"
                         /\ k[u].ev = "CLONE" => k[u].child \in Tids /\ k[k[u].child].st # "none"
  BY DEF SingleProcess, View, Sound
<1> SUFFICES \A u \in Tids : /\ k'[u].st # "none" => k'[u].tgid = Leader
                             /\ k'[u].ev # "EXIT"
                             /\ k'[u].ev = "CLONE" => k'[k'[u].child].st # "none"
  BY <1>0 DEF SingleProcess, View
<1>2. ASSUME Deliver(t)
      PROVE  \A u \in Tids : /\ k'[u].st # "none" => k'[u].tgid = Leader
                             /\ k'[u].ev # "EXIT"
                             /\ k'[u].ev = "CLONE" => k'[k'[u].child].st # "none"
  <2>1. /\ k[t].st \in {"run", "born"} /\ k'[t].tgid = k[t].tgid
        /\ \A u \in Tids : u # t => k'[u] = k[u]
        /\ k'[t].ev \in Signals /\ k'[t].st # "none"
    BY <1>2, DeliverShape DEF SameOrigin
  <2> QED BY <1>1, <2>1 DEF Signals
<1>3. ASSUME SendUsr(t)
      PROVE  \A u \in Tids : /\ k'[u].st # "none" => k'[u].tgid = Leader
                             /\ k'[u].ev # "EXIT"
                             /\ k'[u].ev = "CLONE" => k'[k'[u].child].st # "none"
  <2>1. \A u \in Tids : /\ k'[u].st = k[u].st /\ k'[u].ev = k[u].ev
                        /\ k'[u].child = k[u].child /\ k'[u].tgid = k[u].tgid
    BY <1>3, SendUsrShape
  <2> QED BY <1>1, <2>1
<1>4. ASSUME NEW c \in Tids, NewTask(t, c, k[t].tgid)
      PROVE  \A u \in Tids : /\ k'[u].st # "none" => k'[u].tgid = Leader
                             /\ k'[u].ev # "EXIT"
                             /\ k'[u].ev = "CLONE" => k'[k'[u].child].st # "none"
  <2>0. k[t].tgid \in Tids \cup {NoTid}
    BY TasksOK DEF Task
  <2>1. /\ c # t /\ k[t].st = "run" /\ k[c].st = "none"
        /\ \A u \in Tids : u # t /\ u # c => k'[u] = k[u]
        /\ k'[t].st = "stop" /\ k'[t].ev = "CLONE" /\ k'[t].child = c
        /\ k'[t].tgid = k[t].tgid /\ k'[c].tgid = k[t].tgid
        /\ k'[c].st = "born" /\ k'[c].ev = "none"
    BY <1>4, <2>0, NewTaskShape DEF SameOrigin
  <2> QED BY <1>1, <2>1
<1> QED BY <1>2, <1>3, <1>4, KernelCases DEF Steady

\* No step of a steady program, or of the server, aborts.
LEMMA NextSteady ==
  ASSUME Steady, Inv, Truth, bug = "none", SingleProcess(View), [Next]_vars
  PROVE  bug' = "none" /\ SingleProcess(View)'
<1>0. Sound(View) /\ Rest /\ Waits /\ Fits(View) /\ Course
  BY TypeParts DEF Inv, Truth
<1>00. View.k = k /\ View.th = th /\ View.bug = bug
  BY DEF View
<1>1. \A t \in Tids : FitsTask(k[t], th[t])
  BY <1>0, <1>00 DEF Fits
<1>2. CASE UNCHANGED <<k, th, bug>>
  BY <1>2, <1>00, BecomesSingle
<1>3. CASE UNCHANGED vars
  BY <1>2, <1>3 DEF vars
<1> SUFFICES ASSUME Next PROVE bug' = "none" /\ SingleProcess(View)'
  BY <1>3
<1>4. ASSUME NEW t \in Tids, Kernel(t) PROVE bug' = "none" /\ SingleProcess(View)'
  BY <1>0, <1>4, KernelSingle
<1>5. ASSUME NEW t \in Tids, WaitMain(t) PROVE bug' = "none" /\ SingleProcess(View)'
  <2> DEFINE v == wait_main_one(View, t)
  <2>1. k[t].ev # "none" /\ k' = v.k /\ th' = v.th /\ bug' = v.bug
    BY <1>5 DEF WaitMain, Waitable, Becomes
  <2>2. CASE th[t].here
    <3>1. v = thread_handle_status(View, t)
      BY <1>00, <2>2 DEF wait_main_one
    <3> HIDE DEF v
    <3>2. Handled(View, v, t) /\ SingleProcess(v)
      BY <1>0, <1>00, <2>1, <2>2, <3>1, SteadyHandled
    <3> QED BY <2>1, <3>2, BecomesSingle DEF Handled
  <2>3. CASE ~th[t].here
    <3>1. k[t].st = "stop" /\ k[t].ev = "STOP"
      BY <1>0, <1>00, <1>1, <2>1, <2>3 DEF Sound, FitsTask
    <3> HIDE DEF v
    <3>2. v.bug = "none" /\ SingleProcess(v)
      BY <1>0, <1>00, <2>3, <3>1, SteadyWelcomed DEF v
    <3> QED BY <2>1, <3>2, BecomesSingle
  <2> QED BY <2>2, <2>3
<1>6. ASSUME Becomes(process_continue_all(View)) PROVE bug' = "none" /\ SingleProcess(View)'
  <2> DEFINE v == process_continue_all(View)
  <2>1. AllResumed(View, v)
    BY <1>0, <1>00, <1>1, ContinueAllShape DEF FitsTask
  <2>2. k' = v.k /\ th' = v.th /\ bug' = v.bug
    BY <1>6 DEF Becomes
  <2> HIDE DEF v
  <2>3. \A t \in Tids : /\ v.th[t].here <=> th[t].here
                        /\ v.th[t].proc = th[t].proc /\ v.th[t].notified = th[t].notified
                        /\ v.k[t].tgid = k[t].tgid /\ v.k[t].child = k[t].child
                        /\ v.k[t].ev \in {k[t].ev, "none"}
    BY <1>00, <2>1 DEF AllResumed, Resumed
  <2>4. \A t \in Tids : v.k[t].st # "none" <=> k[t].st # "none"
    BY <1>00, <1>1, <2>1 DEF AllResumed, Resumed, FitsTask
  <2>5. \A t \in Tids : v.k[t].ev = "CLONE" => v.k[v.k[t].child].st # "none"
    <3> SUFFICES ASSUME NEW t \in Tids, v.k[t].ev = "CLONE"
                 PROVE  v.k[v.k[t].child].st # "none"
      OBVIOUS
    <3>1. k[t].ev = "CLONE" /\ v.k[t].child = k[t].child
      BY <2>3
    <3>2. k[t].child \in Tids /\ k[k[t].child].st # "none"
      BY <1>0, <1>00, <3>1 DEF Sound, SingleProcess
    <3> QED BY <2>4, <3>1, <3>2
  <2>6. SingleProcess(v)
    BY <1>00, <2>3, <2>4, <2>5, LeaderAssumption DEF SingleProcess
  <2> QED BY <2>1, <2>2, <2>6, BecomesSingle DEF AllResumed
<1>7. ASSUME handle_STRT PROVE bug' = "none" /\ SingleProcess(View)'
  BY <1>2, <1>6, <1>7 DEF handle_STRT
<1>8. ASSUME process_any_running PROVE bug' = "none" /\ SingleProcess(View)'
  BY <1>2, <1>6, <1>8 DEF process_any_running
<1>9. ASSUME NEW t \in Tids, thread_stop(t) PROVE bug' = "none" /\ SingleProcess(View)'
  <2>1. /\ th[t].here /\ th[t].proc = cur
        /\ \A u \in Tids : u # t => k'[u] = k[u] /\ th'[u] = th[u]
        /\ Alike(k[t], k'[t])
        /\ th'[t].here /\ th'[t].proc = cur /\ th'[t].notified = th[t].notified
    BY <1>0, <1>9, ThreadStopShape
  <2>2. bug' = "none"
    BY <1>1, <1>9, <2>1 DEF thread_stop, FitsTask
  <2>3. \A u \in Tids : /\ th'[u].here <=> th[u].here
                        /\ th'[u].proc = th[u].proc /\ th'[u].notified = th[u].notified
                        /\ k'[u].tgid = k[u].tgid /\ k'[u].child = k[u].child
                        /\ k'[u].ev = k[u].ev /\ k'[u].st = k[u].st
    BY <2>1 DEF Alike
  <2>4. \A u \in Tids : k[u].ev = "CLONE" => k[u].child \in Tids
    BY <1>0, <1>00 DEF Sound
  <2> DEFINE v == [k |-> k', th |-> th']
  <2>5. v.k = k' /\ v.th = th'
    OBVIOUS
  <2> HIDE DEF v
  <2>6. SingleProcess(v)
    BY <1>00, <2>3, <2>4, <2>5, LeaderAssumption DEF SingleProcess
  <2> QED BY <2>2, <2>5, <2>6, BecomesSingle
<1>10. ASSUME StopWait PROVE bug' = "none" /\ SingleProcess(View)'
  <2> DEFINE t == curt
             v == thread_wait(View, t)
  <2>1. /\ pc = "stop_wait" /\ CanWait(View, t)
        /\ Becomes(IF v.bug = "none" /\ v.th[t].running
                   THEN [v EXCEPT !.bug = "still_running"] ELSE v)
    BY <1>10 DEF StopWait, At
  <2>2. t \in Tids /\ th[t].here /\ th[t].stopme
    BY <1>0, <2>1 DEF Waits, Course
  <2>3. k[t].ev # "none" /\ v = thread_handle_status(View, t)
    BY <1>00, <1>1, <2>1, <2>2 DEF CanWait, Waitable, thread_wait, FitsTask
  <2> HIDE DEF t, v
  <2>4. Handled(View, v, t) /\ SingleProcess(v)
    BY <1>0, <1>00, <2>2, <2>3, SteadyHandled
  <2>5. ~v.th[t].running
    <3>1. k[t].ev # "EXIT"
      BY <1>00, <2>2 DEF SingleProcess
    <3> QED BY <1>00, <2>2, <2>4, <3>1 DEF Handled
  <2>6. k' = v.k /\ th' = v.th /\ bug' = "none"
    BY <2>1, <2>4, <2>5 DEF Becomes, Handled
  <2> QED BY <2>4, <2>6, BecomesSingle
<1>11. ASSUME process_stabilize PROVE bug' = "none" /\ SingleProcess(View)'
  <2>1. \A t \in InProc(View, cur) : Traceable(View, t)
    BY <1>00, <1>1, <1>11 DEF process_stabilize, InProc, Running, Traceable, FitsTask
  <2> QED BY <1>2, <1>11, <2>1 DEF process_stabilize
<1>12. ASSUME handle_STOP \/ handle_INJL \/ handle_INJU \/ StopIter
       PROVE  bug' = "none" /\ SingleProcess(View)'
  BY <1>2, <1>12 DEF handle_STOP, handle_INJL, handle_INJU, StopFirst, StopIter
<1>13. \A p \in Tids : ~handle_KILL(p) /\ ~handle_DETC(p)
  BY DEF handle_KILL, handle_DETC, Accept, Steady
<1>14. pc \notin {"process_kill", "kill_wait", "detach"}
  BY <1>0 DEF Course, Rest, Steady
<1>15. ~KillWait /\ ~KillDone /\ ~process_detach /\ \A t \in Tids : ~thread_kill(t)
  BY <1>14 DEF KillWait, KillDone, thread_kill, process_detach, At
<1>16. CASE Command
  BY <1>7, <1>12, <1>13, <1>16 DEF Command
<1>17. CASE Server
  BY <1>8, <1>9, <1>10, <1>11, <1>12, <1>15, <1>17 DEF Server
<1> QED BY <1>4, <1>5, <1>16, <1>17 DEF Next

\* While one process creates threads and takes signals, however the client
\* starts and stops the trace, no assertion of the server fails and no ptrace
\* request is refused.
THEOREM NoAbort == ASSUME Steady PROVE Spec => []NoServerBug
<1> DEFINE S == bug = "none" /\ SingleProcess(View)
<1>1. Init => S
  <2> SUFFICES ASSUME Init PROVE SingleProcess(View)
    BY DEF Init
  <2> DEFINE q == [NoTask EXCEPT !.st = "stop", !.tgid = Leader]
             w == [NoThread EXCEPT !.here = TRUE, !.proc = Leader,
                                   !.setoptions = TRUE, !.notified = TRUE]
  <2>1. /\ k = [t \in Tids |-> IF t = Leader THEN q ELSE NoTask]
        /\ th = [t \in Tids |-> IF t = Leader THEN w ELSE NoThread]
    BY DEF Init
  <2>2. NoTask \in Task /\ NoTask.st = "none" /\ NoTask.ev = "none"
        /\ NoThread \in Thread /\ ~NoThread.here
    BY NoTaskType DEF NoTask, NoThread
  <2>3. q.st = "stop" /\ q.ev = "none" /\ q.tgid = Leader
        /\ w.here /\ w.proc = Leader /\ w.notified
    BY <2>2 DEF Task, Thread
  <2> HIDE DEF q, w
  <2> QED BY <2>1, <2>2, <2>3, LeaderAssumption DEF SingleProcess, View
<1>2. Orderly
  BY DEF Steady, Orderly
<1>3. Inv /\ Truth /\ S /\ [Next]_vars => S'
  BY NextSteady
<1>4. S => NoServerBug
  BY DEF NoServerBug
<1>5. Spec => [](Inv /\ Truth)
  BY <1>2, Truthfulness
<1> HIDE DEF S
<1> QED BY <1>1, <1>3, <1>4, <1>5, PTL DEF Spec

==============================================================================
