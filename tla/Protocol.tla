------------------------------- MODULE Protocol -------------------------------
(***************************************************************************)
(* Packets: handle_packet and its handlers (communication/protocol.c).     *)
(* Here they are functions from a server and a request to the server       *)
(* afterwards and the answer.  What STRT, STOP, DETC, KILL, INJL and INJU  *)
(* do to the processes is the subject of Tracer and Injection; of the      *)
(* calls made by the other handlers only the result matters.               *)
(*                                                                         *)
(* A field is a name <<string, index>>, the index being -1 for a name      *)
(* without one, and a value; how fields are laid out in bytes is module    *)
(* Payload.  A server is a record of                                       *)
(*   procs      traced processes: [references, threads, bytes, segments,   *)
(*              injections, leaked]: for each thread, whether it runs; how *)
(*              much memory can be read; references to threads that are    *)
(*              never given back                                           *)
(*   found      processes that can be attached to, or spawned              *)
(*   inj        loaded injectables: [id, exports, imports, adbi, tpoints]  *)
(*   dirs       directories of the file system                             *)
(*   level, quit                                                           *)
(*   payload_buffer  the fields put so far                                 *)
(*   failed     an assertion has failed                                    *)
(***************************************************************************)
EXTENDS Integers, Sequences

LOCAL INSTANCE SequencesExt

MaxDump == 10240

Plain(name) == <<name, -1>>

Put(sv, fields) == [sv EXCEPT !.payload_buffer = @ \o fields]

F(name, n, val) == [name |-> <<name, n>>, val |-> val]

\* The fields of a list, Fields(n, item) for each item, and then their number.
Listing(sv, items, Fields(_, _), count) ==
    Put(sv, FlattenSeq([n \in 1..Len(items) |-> Fields(n - 1, items[n])])
              \o <<F(count, -1, Len(items))>>)

------------------------------------------------------------------------------
(* Answers                                                                 *)

\* respond: the terminator, then all that is in the buffer.
respond(sv, request, type) ==
    LET done == Put(sv, <<F("", -1, "terminator")>>)
    IN  [sv |-> done,
         answer |-> [type |-> type, seq |-> request.seq, payload |-> done.payload_buffer]]

\* say, with the text of the message left out
say(sv, request, type) == respond(Put(sv, <<F("msg", -1, type)>>), request, type)

\* read_u32, read_u64, read_str: fields that are missing.
Missing(request, names) == \E name \in names : Plain(name) \notin DOMAIN request.fields

Read(request, name) == request.fields[Plain(name)]

\* process_get: NULL for a process that is not traced.
process_get(sv, pid) == [sv EXCEPT !.procs[pid].references = @ + 1]

process_put(sv, pid) == [sv EXCEPT !.procs[pid].references = @ - 1]

Traced(sv, request) == Read(request, "pid") \in DOMAIN sv.procs

------------------------------------------------------------------------------
(* Process control                                                         *)

NewProcess == [references |-> 1, threads |-> <<FALSE>>, bytes |-> 0, segments |-> <<>>,
               injections |-> <<>>, leaked |-> 0]

Added(sv, pid) ==
    [sv EXCEPT !.procs = [p \in DOMAIN @ \cup {pid} |->
                             IF p \in DOMAIN @ THEN @[p] ELSE NewProcess]]

handle_ATTC(sv, request) ==
    IF Missing(request, {"pid"}) THEN say(sv, request, "MALF")
    ELSE LET pid == Read(request, "pid")
         IN  IF pid \in sv.found \ DOMAIN sv.procs THEN say(Added(sv, pid), request, "OKAY")
             ELSE say(sv, request, "FAIL")

\* The arguments are read one by one.
handle_SPWN(sv, request) ==
    IF \/ Missing(request, {"argc"})
       \/ \E n \in 0..(Read(request, "argc") - 1) : <<"argv", n>> \notin DOMAIN request.fields
    THEN say(sv, request, "MALF")
    ELSE LET new == sv.found \ DOMAIN sv.procs
         IN  IF new = {} THEN say(sv, request, "FAIL")
             ELSE say(Added(sv, CHOOSE p \in new : TRUE), request, "OKAY")

\* process_iter visits the processes in the order of their ids.
handle_PROC(sv, request) ==
    LET Pid(n, pid) == <<F("procv", n, pid)>>
    IN  say(Listing(sv, SetToSortSeq(DOMAIN sv.procs, <), Pid, "procc"), request, "OKAY")

------------------------------------------------------------------------------
(* Injectables                                                             *)

handle_INJQ(sv, request) ==
    LET Item(n, i) == <<F("injid", n, i.id), F("injnm", n, i.name)>>
    IN  say(Listing(sv, sv.inj, Item, "injc"), request, "OKAY")

\* injectable_get
Loaded(sv, iid) == {n \in 1..Len(sv.inj) : sv.inj[n].id = iid}
InjectableOf(sv, iid) == sv.inj[CHOOSE n \in Loaded(sv, iid) : TRUE]

handle_INJT(sv, request) ==
    LET Item(n, t) == <<F("tpta", n, t.address), F("tpth", n, t.handler)>>
    IN  IF Missing(request, {"iid"}) THEN say(sv, request, "MALF")
        ELSE IF Loaded(sv, Read(request, "iid")) = {} THEN say(sv, request, "FAIL")
        ELSE say(Listing(sv, InjectableOf(sv, Read(request, "iid")).tpoints, Item, "tptc"),
                 request, "OKAY")

\* handle_INJ_, for one of the lists of symbols
handle_INJ_(sv, request, list) ==
    LET Item(n, s) == <<F("symnm", n, s.name), F("symad", n, s.offset)>>
    IN  IF Missing(request, {"iid"}) THEN say(sv, request, "MALF")
        ELSE IF Loaded(sv, Read(request, "iid")) = {} THEN say(sv, request, "FAIL")
        ELSE say(Listing(sv, InjectableOf(sv, Read(request, "iid"))[list], Item, "symc"),
                 request, "OKAY")

------------------------------------------------------------------------------
(* The server                                                              *)

handle_LLEV(sv, request) ==
    IF Missing(request, {"loglevel"}) THEN say(sv, request, "MALF")
    ELSE say([sv EXCEPT !.level = Read(request, "loglevel")], request, "OKAY")

handle_PING(sv, request) == say(sv, request, "OKAY")

handle_QUIT(sv, request) == say([sv EXCEPT !.quit = TRUE], request, "OKAY")

handle_LDIR(sv, request) ==
    LET Item(n, e) == <<F("entv", n, e.name), F("entd", n, e.dir)>>
    IN  IF Missing(request, {"path"}) THEN say(sv, request, "MALF")
        ELSE IF Read(request, "path") \notin DOMAIN sv.dirs THEN say(sv, request, "FAIL")
        ELSE say(Listing(sv, sv.dirs[Read(request, "path")], Item, "entc"), request, "OKAY")

------------------------------------------------------------------------------
(* Diagnostics                                                             *)

\* str_address is described in Injfile and Elf.
handle_ADDR(sv, request) ==
    IF Missing(request, {"pid", "address"}) THEN say(sv, request, "MALF")
    ELSE IF ~Traced(sv, request) THEN say(sv, request, "FAIL")
    ELSE LET pid == Read(request, "pid")
             address == Read(request, "address")
         IN  say(process_put(Put(process_get(sv, pid), <<F("address", -1, address),
                                                         F("info", -1, <<pid, address>>)>>), pid),
                 request, "OKAY")

process_is_running(process) ==
    FoldLeft(LAMBDA running, thread : running /\ thread, FALSE, process.threads)

\* thread_any_stopped: is there one?
thread_any_stopped(process) == \E n \in 1..Len(process.threads) : ~process.threads[n]

WordsOf(size) == size \div 4

\* handle_MEMD.  A process that is found to be running is stopped and continued.
\* mem_read asserts that thread_any_stopped has not returned NULL; the
\* reference to that thread is never given back.  A word is its address.
handle_MEMD(sv, request) ==
    IF Missing(request, {"pid", "address", "size"}) THEN say(sv, request, "MALF")
    ELSE IF ~Traced(sv, request) THEN say(sv, request, "FAIL")
    ELSE LET pid == Read(request, "pid")
             address == Read(request, "address")
             asked == 4 * WordsOf(Read(request, "size"))
             size == IF asked > MaxDump THEN MaxDump ELSE asked
             process == sv.procs[pid]
             stopped == process_is_running(process) \/ thread_any_stopped(process)
             left == IF address < process.bytes THEN process.bytes - address ELSE 0
             read == IF left < size THEN left ELSE size
             words == [n \in 1..WordsOf(read) |-> F("word", n - 1, address + 4 * (n - 1))]
             taken == [process_get(sv, pid) EXCEPT !.procs[pid].leaked = @ + 1]
         IN  IF ~stopped
             THEN [sv |-> [process_get(sv, pid) EXCEPT !.failed = TRUE], answer |-> <<>>]
             ELSE say(process_put(Put(taken, words \o <<F("address", -1, address),
                                                        F("size", -1, Len(words))>>), pid),
                      request, "OKAY")

\* The segments, each with its trampolines behind it, then the injections.
handle_MAPS(sv, request) ==
    LET Report(n, r) == <<F("seglo", n, r.lo), F("segtype", n, r.type)>>
        Natural(s) == <<[lo |-> s.start, type |-> "natural"]>>
                        \o (IF s.trampolines = 0 THEN <<>>
                            ELSE <<[lo |-> s.trampolines, type |-> "trampoline"]>>)
        Injected(i) == [lo |-> i, type |-> "injection"]
    IN  IF Missing(request, {"pid"}) THEN say(sv, request, "MALF")
        ELSE IF ~Traced(sv, request) THEN say(sv, request, "FAIL")
        ELSE LET pid == Read(request, "pid")
                 process == sv.procs[pid]
                 reports ==
                     FlattenSeq([n \in 1..Len(process.segments) |-> Natural(process.segments[n])])
                       \o [n \in 1..Len(process.injections) |-> Injected(process.injections[n])]
             IN  say(process_put(Listing(process_get(sv, pid), reports, Report, "segc"), pid),
                     request, "OKAY")

------------------------------------------------------------------------------
(* handle_packet                                                           *)

payload_reset(sv) == [sv EXCEPT !.payload_buffer = <<>>]

\* request.valid is what payload_check says.
handle(sv, request) ==
    CASE ~request.valid -> say(sv, request, "MALF")
      [] request.valid /\ request.type = "ATTC" -> handle_ATTC(sv, request)
      [] request.valid /\ request.type = "SPWN" -> handle_SPWN(sv, request)
      [] request.valid /\ request.type = "PROC" -> handle_PROC(sv, request)
      [] request.valid /\ request.type = "INJQ" -> handle_INJQ(sv, request)
      [] request.valid /\ request.type = "INJT" -> handle_INJT(sv, request)
      [] request.valid /\ request.type = "INJE" -> handle_INJ_(sv, request, "exports")
      [] request.valid /\ request.type = "INJI" -> handle_INJ_(sv, request, "imports")
      [] request.valid /\ request.type = "INJA" -> handle_INJ_(sv, request, "adbi")
      [] request.valid /\ request.type = "LLEV" -> handle_LLEV(sv, request)
      [] request.valid /\ request.type = "PING" -> handle_PING(sv, request)
      [] request.valid /\ request.type = "QUIT" -> handle_QUIT(sv, request)
      [] request.valid /\ request.type = "LDIR" -> handle_LDIR(sv, request)
      [] request.valid /\ request.type = "ADDR" -> handle_ADDR(sv, request)
      [] request.valid /\ request.type = "MEMD" -> handle_MEMD(sv, request)
      [] request.valid /\ request.type = "MAPS" -> handle_MAPS(sv, request)
      [] OTHER -> say(sv, request, "USUP")

\* Mutant: the buffer is not emptied for a new answer.
handle_packet_noreset(sv, request) == handle(sv, request)

handle_packet(sv, request) == handle(payload_reset(sv), request)

\* payload_find, by its contract (see Payload): the first field of the name,
\* or -1.
Get(payload, name) ==
    LET S == {n \in 1..Len(payload) : payload[n].name = name}
    IN  IF S = {} THEN -1 ELSE payload[CHOOSE n \in S : \A m \in S : n <= m].val
==============================================================================
