------------------------------ MODULE Injection ------------------------------
(***************************************************************************)
(* Which injectables are loaded in the server, which are injected in each  *)
(* traced process, and the reference counts that say when an injection may *)
(* be removed (injectable/injectable.c, injection/injection.c,             *)
(* process/segment.c, process/process.c).                                  *)
(*                                                                         *)
(* Every operation runs while the processes it changes are stopped, so one *)
(* handler is one step.  Failing calls in the traced process (no memory, a *)
(* failing initialisation) are chosen freely, up to MaxFails handlers.     *)
(***************************************************************************)
EXTENDS Integers, FiniteSets, SequencesExt

CONSTANTS
    Adbi,       \* the built-in base injectable
    Libs,       \* library injectables
    Bindings,   \* injectables bound to a file; the file has the same name
    Imports,    \* the libraries whose symbols an injectable imports
    Heap,       \* all injectables, ordered by the address of injectable_t
    Layout,     \* the file of each segment that may be mapped, by address
    Procs,      \* processes
    Ops,        \* what happens to them
    MaxFails    \* bound: handlers with a failing injection

Injectables == {Adbi} \cup Libs \cup Bindings

Segs == DOMAIN Layout

ASSUME KindsAssumption == Adbi \notin Libs \cup Bindings /\ Libs \cap Bindings = {}
ASSUME ImportsAssumption ==
    Imports \in [Injectables -> SUBSET (Libs \cup {Adbi})] /\ Imports[Adbi] = {}
\* injectable_iter_dependencies follows imports without end if they are cyclic.
ASSUME AcyclicAssumption ==
    /\ IsFiniteSet(Injectables)
    /\ \E rank \in [Injectables -> 0..Cardinality(Injectables)] :
          \A i \in Injectables : \A d \in Imports[i] : rank[d] < rank[i]
ASSUME HeapAssumption ==
    /\ Heap \in Seq(Injectables) /\ IsInjective(Heap) /\ ToSet(Heap) = Injectables
    /\ Layout \in Seq(Bindings)
ASSUME ProcsAssumption == IsFiniteSet(Procs)
ASSUME OpsAssumption == Ops \subseteq {"fork", "exec", "exit", "detach", "unload", "rescan"}
ASSUME MaxFailsAssumption == MaxFails \in Nat

VARIABLES
    loaded,     \* injectables in the order of their ids
    proc,       \* process_t of each process
    fails       \* handlers with a failing injection so far

vars == <<loaded, proc, fails>>

\* refs: an assertion on a reference count; no_adbi: no base injection;
\* null: a missing injection is used; freed: a freed tree node is used.
Bugs == {"none", "refs", "no_adbi", "null", "freed"}

\* has and refs: process->injections and injection->references; bound: the
\* segments with segment->injection.  "left" is a process the server has
\* detached from; has is then what remains in its memory.
Process == [st     : {"none", "traced", "left"},
            mapped : SUBSET Segs,
            bound  : SUBSET Segs,
            has    : SUBSET Injectables,
            refs   : [Injectables -> Int],
            bug    : Bugs]

NoProcess == [st |-> "none", mapped |-> {}, bound |-> {}, has |-> {},
              refs |-> [i \in Injectables |-> 0], bug |-> "none"]

TypeOK ==
    /\ loaded \in Seq(Injectables) /\ IsInjective(loaded)
    /\ proc \in [Procs -> Process]
    /\ fails \in 0..MaxFails

Init ==
    /\ loaded = <<Adbi>>
    /\ proc = [p \in Procs |-> NoProcess]
    /\ fails = 0

Traced == {p \in Procs : proc[p].st = "traced"}

Abort(r, why) == [r EXCEPT !.bug = why]

------------------------------------------------------------------------------
(* injectable/injectable.c: dependencies                                   *)

\* injectable_get_dependencies: an import is resolved by the library that
\* exports the symbol, if it is loaded; dependencies are visited in the order
\* of their ids.  injectable_iter_dependencies: depth first, once for every
\* path.
Walk(ld) ==
    LET walk[i \in Injectables] ==
            FoldLeft(LAMBDA acc, d : IF d \in Imports[i] THEN acc \o walk[d] \o <<d>>
                                     ELSE acc,
                     <<>>, ld)
    IN  walk

Unresolved(ld, i) ==
    \E j \in {i} \cup ToSet(Walk(ld)[i]) : ~(Imports[j] \subseteq ToSet(ld))

------------------------------------------------------------------------------
(* injection/injection.c                                                   *)

\* Code is allocated, written, linked and initialised; a failure of any of
\* these leaves nothing behind.  Without the base injection nothing can be
\* called in the process.
inject(r, i, fail) ==
    IF Adbi \notin r.has THEN Abort(r, "no_adbi")
    ELSE IF i \in fail THEN r
    ELSE [r EXCEPT !.has = @ \cup {i}, !.refs[i] = 0]

inject_adbi(r, fail) ==
    IF Adbi \in fail THEN r ELSE [r EXCEPT !.has = @ \cup {Adbi}, !.refs[Adbi] = 1]

\* Mutant: only the first use of a library is counted.
inject_dependency_once(r, d, fail) ==
    LET n == inject(r, d, fail)
    IN  IF d \in r.has \/ n.bug # "none" THEN [r EXCEPT !.bug = n.bug]
        ELSE IF d \notin n.has THEN Abort(n, "null")
        ELSE [n EXCEPT !.refs[d] = @ + 1]

\* The library is injected unless it already is; inject may return NULL.
inject_dependency(r, d, fail) ==
    LET n == IF d \in r.has THEN r ELSE inject(r, d, fail)
    IN  IF n.bug # "none" THEN n
        ELSE IF d \notin n.has THEN Abort(n, "null")
        ELSE [n EXCEPT !.refs[d] = @ + 1]

\* Libraries stay when the injection they were injected for fails.
inject_dependencies(r, ld, i, fail) ==
    FoldLeft(LAMBDA acc, d : IF acc.bug # "none" THEN acc
                             ELSE inject_dependency(acc, d, fail),
             r, Walk(ld)[i])

\* Segments that are not executable, are writable or have no tracepoint are
\* not in the model.
injections_init(r, ld, s, fail) ==
    LET i == Layout[s]
        d == inject_dependencies(r, ld, i, fail)
        n == IF i \in r.has \/ Unresolved(ld, i) THEN r
             ELSE IF d.bug # "none" THEN d
             ELSE inject(d, i, fail)
    IN  IF r.bug # "none" \/ s \in r.bound \/ i \notin ToSet(ld) THEN r
        ELSE IF n.bug # "none" \/ i \notin n.has THEN n
        ELSE [n EXCEPT !.bound = @ \cup {s}, !.refs[i] = @ + 1]

\* Mutant: libraries are not given back.
uninject_dependency_never(r, d, detach) == r

\* Mutant: a library stays when its last user is gone.
uninject_dependency_keeps(r, d, detach) ==
    IF r.bug # "none" THEN r
    ELSE IF d \notin r.has THEN Abort(r, "null")
    ELSE [r EXCEPT !.refs[d] = @ - 1]

\* detach is injection_detach_single: the two call each other.
uninject_dependency(r, d, detach) ==
    LET n == [r EXCEPT !.refs[d] = @ - 1]
    IN  IF r.bug # "none" THEN r
        ELSE IF d \notin r.has THEN Abort(r, "null")
        ELSE IF n.refs[d] = 0 /\ d # Adbi THEN detach[<<n, d>>]
        ELSE n

uninject_dependencies(r, ld, i, detach) ==
    FoldLeft(LAMBDA acc, d : uninject_dependency(acc, d, detach), r, Walk(ld)[i])

Detach(ld) ==
    LET detach[x \in Process \X Injectables] ==
            LET r == x[1]
                n == uninject_dependencies(r, ld, x[2], detach)
            IN  IF r.refs[x[2]] # 0 THEN Abort(r, "refs")
                ELSE IF n.bug # "none" THEN n
                ELSE [n EXCEPT !.has = @ \ {x[2]}]
    IN  detach

injection_detach_single(r, ld, i) == Detach(ld)[<<r, i>>]

uninject_adbi(r, fail) ==
    IF r.bug # "none" THEN r
    ELSE IF Adbi \notin r.has THEN Abort(r, "no_adbi")
    ELSE IF Adbi \in fail THEN r
    ELSE IF r.refs[Adbi] # 1 THEN Abort(r, "refs")
    ELSE [r EXCEPT !.refs[Adbi] = 0, !.has = @ \ {Adbi}]

\* TREE_ITER_SAFE takes the next node before it handles one: acc.saw is
\* what was injected then.
injection_detach(r, ld, fail) ==
    LET visit(acc, i) ==
            IF acc.r.bug # "none" \/ i \notin acc.saw THEN acc
            ELSE IF i \notin acc.r.has
            THEN [acc EXCEPT !.r = Abort(@, "freed")]
            ELSE [saw |-> acc.r.has,
                  r |-> IF i \in Bindings THEN injection_detach_single(acc.r, ld, i)
                        ELSE acc.r]
    IN  uninject_adbi(FoldLeft(visit, [saw |-> r.has, r |-> r], Heap).r, fail)

\* Libraries keep the count of the parent, the base injection gets one
\* reference, the others are counted by segment_fork.
injection_fork(r) ==
    [r EXCEPT !.refs = [i \in Injectables |->
        IF i = Adbi THEN IF Adbi \in r.has THEN 1 ELSE 0
        ELSE IF i \in Libs THEN @[i]
        ELSE 0]]

------------------------------------------------------------------------------
(* process/segment.c                                                       *)

\* segment_free and segment_release_injection for the segments S
Release(r, S) ==
    [r EXCEPT !.bound = @ \ S,
              !.refs = [i \in Injectables |->
                  @[i] - Cardinality({s \in S \cap r.bound : Layout[s] = i})]]

\* injections_init for each mapped segment, in the order of addresses
InitSegments(r, ld, fail) ==
    FoldLeftDomain(LAMBDA acc, s : IF s \in r.mapped
                                   THEN injections_init(acc, ld, s, fail)
                                   ELSE acc,
                   r, Layout)

\* Mutant: segments that are gone keep their injection.
segment_rescan_keeps(r, ld, S, fail) ==
    LET new == [r EXCEPT !.mapped = S \ r.mapped]
    IN  [InitSegments(new, ld, fail) EXCEPT !.mapped = S]

\* Segments that are gone are released, new ones get their injections; what
\* failed for an old segment is not tried again.
segment_rescan(r, ld, S, fail) ==
    LET kept == Release(r, r.mapped \ S)
        new == [kept EXCEPT !.mapped = S \ r.mapped]
    IN  [InitSegments(new, ld, fail) EXCEPT !.mapped = S]

\* Mutant: the child's segments are not counted.
segment_fork_uncounted(r) == r

segment_fork(r) ==
    [r EXCEPT !.refs = [i \in Injectables |->
        @[i] + Cardinality({s \in r.bound : Layout[s] = i})]]

segment_detach_injectable(r, i) == Release(r, {s \in Segs : Layout[s] = i})

------------------------------------------------------------------------------
(* Handlers                                                                *)

\* adbi_bug ends the server.
Alive == \A p \in Procs : proc[p].bug = "none"

\* The injections that fail in this handler
Failing(fail) ==
    /\ fail # {} => fails < MaxFails
    /\ fails' = IF fail = {} THEN fails ELSE fails + 1

\* What a new address space holds: the base injection, then the segments.
Attached(S, fail) ==
    LET r == inject_adbi([NoProcess EXCEPT !.st = "traced"], fail)
    IN  segment_rescan(r, loaded, S, fail)

\* process_attach and process_spawn; the answer of inject_adbi is ignored.
process_attach(p) ==
    /\ Alive /\ proc[p].st = "none"
    /\ \E S \in SUBSET Segs, fail \in SUBSET ToSet(loaded) :
        Failing(fail) /\ proc' = [proc EXCEPT ![p] = Attached(S, fail)]
    /\ UNCHANGED loaded

\* thread_exec: segments and injections are forgotten, and found again.
thread_exec(p) ==
    /\ "exec" \in Ops /\ Alive /\ p \in Traced
    /\ \E S \in SUBSET Segs, fail \in SUBSET ToSet(loaded) :
        Failing(fail) /\ proc' = [proc EXCEPT ![p] = Attached(S, fail)]
    /\ UNCHANGED loaded

\* The dynamic linker mapped or unmapped something.
linker_notify(p) ==
    /\ "rescan" \in Ops /\ Alive /\ p \in Traced
    /\ \E S \in SUBSET Segs, fail \in SUBSET ToSet(loaded) :
        /\ Failing(fail)
        /\ proc' = [proc EXCEPT ![p] = segment_rescan(@, loaded, S, fail)]
    /\ UNCHANGED loaded

process_forked(p, c) ==
    /\ "fork" \in Ops /\ Alive /\ p \in Traced /\ proc[c].st = "none"
    /\ proc' = [proc EXCEPT ![c] = segment_fork(injection_fork(proc[p]))]
    /\ UNCHANGED <<loaded, fails>>

\* The last thread is gone: process_free forgets everything.
process_free(p) ==
    /\ "exit" \in Ops /\ Alive /\ p \in Traced
    /\ proc' = [proc EXCEPT ![p] = NoProcess]
    /\ UNCHANGED <<loaded, fails>>

\* segment_detach, injection_detach; then the process is on its own, with
\* whatever was not removed.
process_detach(p) ==
    /\ "detach" \in Ops /\ Alive /\ p \in Traced
    /\ \E fail \in SUBSET {Adbi} :
        LET r == injection_detach(Release(proc[p], Segs), loaded, fail) IN
        /\ Failing(fail)
        /\ proc' = [proc EXCEPT ![p] =
                [NoProcess EXCEPT !.st = "left", !.has = r.has, !.bug = r.bug]]
    /\ UNCHANGED loaded

\* Mutant: only the segments of the new injectable are tried.
injectable_load_own(i) ==
    /\ Alive /\ i \in Injectables \ ToSet(loaded)
    /\ loaded' = Append(loaded, i)
    /\ proc' = [p \in Procs |->
            IF p \in Traced
            THEN FoldLeftDomain(LAMBDA acc, s : IF s \in proc[p].mapped /\ Layout[s] = i
                                                THEN injections_init(acc, loaded', s, {})
                                                ELSE acc,
                                proc[p], Layout)
            ELSE proc[p]]
    /\ UNCHANGED fails

\* INJL: segments without an injection are tried again in each process,
\* whichever injectable they need.
injectable_load(i) ==
    /\ Alive /\ i \in Injectables \ ToSet(loaded)
    /\ loaded' = Append(loaded, i)
    /\ \E fail \in SUBSET ToSet(loaded') :
        /\ Failing(fail)
        /\ proc' = [p \in Procs |-> IF p \in Traced
                                    THEN InitSegments(proc[p], loaded', fail)
                                    ELSE proc[p]]

\* injectable->references: its injections in all processes
References(i) == Cardinality({p \in Traced : i \in proc[p].has})

process_detach_injectable(r, ld, i) ==
    IF i \in r.has
    THEN injection_detach_single(segment_detach_injectable(r, i), ld, i) ELSE r

\* INJU: built-in injectables and libraries in use are refused.
injectable_unload(i) ==
    /\ "unload" \in Ops /\ Alive /\ i \in ToSet(loaded) \ {Adbi}
    /\ i \in Libs => References(i) = 0
    /\ \E n \in DOMAIN loaded : loaded[n] = i /\ loaded' = RemoveAt(loaded, n)
    /\ proc' = [p \in Procs |-> IF p \in Traced
                                THEN process_detach_injectable(proc[p], loaded, i)
                                ELSE proc[p]]
    /\ UNCHANGED fails

Next ==
    \/ \E p \in Procs : \/ process_attach(p) \/ thread_exec(p) \/ linker_notify(p)
                        \/ process_free(p) \/ process_detach(p)
                        \/ \E c \in Procs : process_forked(p, c)
    \/ \E i \in Injectables : injectable_load(i) \/ injectable_unload(i)

Spec == Init /\ [][Next]_vars

------------------------------------------------------------------------------
(* Properties                                                              *)

Occurrences(i, seq) == Cardinality({n \in DOMAIN seq : seq[n] = i})

\* How often the injection of i is needed in the process r: by its segments,
\* by every path from a bound injectable, and the base injection by the
\* server itself.
Needed(r, i) ==
    LET paths(j) == Occurrences(i, Walk(loaded)[j])
    IN  Cardinality({s \in r.bound : Layout[s] = i})
            + MapThenSumSet(paths, r.has \cap Bindings)
            + (IF i = Adbi THEN 1 ELSE 0)

\* injection->references counts exactly what needs the injection, through
\* any order of loading, mapping, exec, fork and unloading.  An injection
\* that failed leaves its libraries counted too often, never too rarely.
RefsExact ==
    Alive => \A p \in Traced : \A i \in proc[p].has :
        /\ proc[p].refs[i] >= Needed(proc[p], i)
        /\ fails = 0 => proc[p].refs[i] = Needed(proc[p], i)

\* No assertion on reference counts fails, and no missing or freed injection
\* is used.
NoAbort == Alive

\* The assertions references == 0 of uninject, injection_detach_single and
\* uninject_adbi hold.
CountsBalance == \A p \in Procs : proc[p].bug # "refs"

\* The base injection is there whenever it is used.
AdbiPresent == \A p \in Procs : proc[p].bug # "no_adbi"

\* inject returned an injection whenever its result is used.
DependencyFound == \A p \in Procs : proc[p].bug # "null"

\* TREE_ITER_SAFE never goes on from a node that the loop's body freed.
IterationSafe == \A p \in Procs : proc[p].bug # "freed"

\* A segment's injection exists, and an injection's injectable is loaded:
\* unloading frees neither while it is pointed to.
NoDangling ==
    Alive => \A p \in Traced :
        /\ \A s \in proc[p].bound : s \in proc[p].mapped /\ Layout[s] \in proc[p].has
        /\ proc[p].has \subseteq ToSet(loaded)

\* In whatever order libraries, bound injectables and segments appear, a
\* segment has its injection as soon as everything it needs is there.
SegmentsServed ==
    Alive => \A p \in Traced : \A s \in proc[p].mapped :
        Layout[s] \in ToSet(loaded) /\ ~Unresolved(loaded, Layout[s])
            => s \in proc[p].bound

\* Detaching leaves no injected code in the process.
CleanDetach ==
    Alive => \A p \in Procs : proc[p].st = "left" => proc[p].has = {}

\* "injectable in use by other injectable(s), can't unload": a library whose
\* unloading is refused is needed by an injectable of some process.
RefusedOnlyInUse ==
    Alive => \A p \in Traced : \A l \in proc[p].has \cap Libs :
        \E i \in proc[p].has \cap Bindings : l \in ToSet(Walk(loaded)[i])
==============================================================================
