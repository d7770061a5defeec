-------------------------------- MODULE Gaps ---------------------------------
(***************************************************************************)
(* Where the trampolines of a segment are put (tracepoint/tracepoint.c,    *)
(* tracepoint_iter_free_segments_around and allocate_trampoline).          *)
(*                                                                         *)
(* The unit is a page.  A process is a function from the pages where its   *)
(* segments start to [end, prot, shared, file].  Jumps reach `reach'       *)
(* pages.  Addresses are unsigned: below page 0 come the highest ones.     *)
(***************************************************************************)
EXTENDS Integers, FiniteSets

AddressPages == 64
Unsigned(address) == address % AddressPages

\* segment_get, by its contract (see Trees)
SegmentAt(process, address) ==
    {s \in DOMAIN process : s <= address /\ address < process[s].end}

\* arch_check_relative_jump, in pages
reachable(reach, from, to) == to - from \in -reach..reach

\* Mutant: a private segment that may only be written counts as unused.
segment_is_unused_write(seg) ==
    "r" \notin seg.prot /\ "x" \notin seg.prot /\ ~seg.shared /\ ~seg.file

segment_is_unused(seg) == seg.prot = {} /\ ~seg.shared /\ ~seg.file

\* What fn is called with: a gap, or a segment to be taken.
Gap(start, size) == [start |-> start, size |-> size, seg |-> FALSE]
Whole(process, s) == [start |-> s, size |-> process[s].end - s, seg |-> TRUE]

\* One turn of a loop: the next offset, whether it can be reached, the calls.
Turn(off, go, calls) == [off |-> off, go |-> go, calls |-> calls]

\* The number of pages of a gap that is enlarged while More holds.
GapSize(max_size, More(_)) ==
    CHOOSE n \in 1..max_size : /\ \A m \in 1..(n - 1) : More(m)
                               /\ n = max_size \/ ~More(n)

\* The loop below the segment, at addr - off: the gap grows downwards.
Below(process, reach, hi, addr, off, max_size) ==
    LET At(n) == Unsigned(addr - off - n)
        More(n) == reachable(reach, hi, At(n)) /\ SegmentAt(process, At(n)) = {}
        size == GapSize(max_size, More)
        s == CHOOSE s \in SegmentAt(process, At(0)) : TRUE
        next == off + process[s].end - s
    IN  IF SegmentAt(process, At(0)) = {}
        THEN Turn(off + size, reachable(reach, hi, At(size)),
                  {Gap(Unsigned(At(0) - size + 1), size)})
        ELSE Turn(next, reachable(reach, hi, Unsigned(addr - next)),
                  IF segment_is_unused(process[s]) /\ reachable(reach, hi, s)
                  THEN {Whole(process, s)} ELSE {})

\* The loop above it, at addr + off.  While the gap grows, the pages looked
\* at are the ones below, at addr - off.
Above(process, reach, low, addr, off, max_size) ==
    LET at == Unsigned(addr + off)
        Go(n) == reachable(reach, low, Unsigned(IF n = 1 THEN addr + off + 2
                                                ELSE addr - off - n + 1))
        More(n) == Go(n) /\ SegmentAt(process, Unsigned(addr - off - n)) = {}
        size == GapSize(max_size, More)
        s == CHOOSE s \in SegmentAt(process, at) : TRUE
        next == off + process[s].end - s
    IN  IF SegmentAt(process, at) = {}
        THEN Turn(off + size, Go(size), {Gap(at, size)})
        ELSE Turn(next, reachable(reach, low, Unsigned(addr + next)),
                  IF segment_is_unused(process[s]) /\ reachable(reach, low, process[s].end)
                  THEN {Whole(process, s)} ELSE {})

\* find_coherent: the kernel refuses the lowest page.
find_coherent(call, size) == size <= call.size /\ call.start # 0

Nothing == [start |-> -1, size |-> 0, seg |-> FALSE]

\* tracepoint_iter_free_segments_around: the first call that find_coherent
\* accepts.  A loop (below when `side') is left for the other one when its
\* offset is the larger or cannot be reached any more.  `edge' is 1 when the
\* middle of the tracepoints is the first byte of a page.
tracepoint_iter_free_segments_around(process, reach, segment, low, hi, edge, max_size) ==
    LET addr == low + (hi - low) \div 2 - edge
        Offsets == 0..(2 * AddressPages)
        search[be \in Offsets, ab \in Offsets, beGo \in BOOLEAN, abGo \in BOOLEAN,
               side \in BOOLEAN] ==
            LET down == IF side THEN beGo /\ (be <= ab \/ ~abGo)
                        ELSE ~abGo \/ (beGo /\ be < ab)
                t == IF down THEN Below(process, reach, hi, addr, be, max_size)
                     ELSE Above(process, reach, low, addr, ab, max_size)
                accepted == {c \in t.calls : find_coherent(c, max_size)}
            IN  IF ~beGo /\ ~abGo THEN Nothing
                ELSE IF accepted # {} THEN CHOOSE c \in accepted : TRUE
                ELSE IF down THEN search[t.off, ab, t.go, abGo, TRUE]
                ELSE search[be, t.off, beGo, t.go, FALSE]
        be0 == addr - segment + 1
        ab0 == process[segment].end - addr
    IN  search[be0, ab0, reachable(reach, hi, Unsigned(addr - be0)),
               reachable(reach, low, Unsigned(addr + ab0 + 1)), TRUE]

\* allocate_trampoline: mapped over whatever is there (MAP_FIXED); Nothing
\* means that the kernel chooses the place.
allocate_trampoline(process, reach, segment, tracepoints, edge, size) ==
    LET low == CHOOSE t \in tracepoints : \A u \in tracepoints : t <= u
        high == CHOOSE t \in tracepoints : \A u \in tracepoints : t >= u
    IN  tracepoint_iter_free_segments_around(process, reach, segment, low, high, edge, size)
==============================================================================
