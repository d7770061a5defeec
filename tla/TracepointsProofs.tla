-------------------------- MODULE TracepointsProofs --------------------------
(***************************************************************************)
(* Proofs about Tracepoints, for every set of threads and sites and every  *)
(* bound.                                                                  *)
(***************************************************************************)
EXTENDS Tracepoints, TLAPS, SequenceTheorems

Pairs == [m : Memory, s : Segment]

\* Everything installed belongs to a tracepoint.
Covered(m, s) ==
    /\ \A x \in Sites : m.text[x] # "orig" => x \in s.tracepoints
    /\ \A j \in s.jumps : j[2] \in s.tracepoints

\* Nothing is installed, as far as the server knows: a trampoline that could not
\* be freed and a jump that could not be removed are forgotten.
Bare(m, s) ==
    /\ \A x \in Sites : m.text[x] = "orig"
    /\ s.tracepoints = {} /\ s.jumps = {} /\ ~s.trampolines

\* Nothing is left behind that the server has forgotten.
Tidy(m, s) == m.left = {} /\ \A x \in Sites : m.code[x] # "none" => x \in s.tracepoints

\* What the memory and the server's tables have to do with each other.  A
\* patched instruction has its trampoline, a breakpoint its entry in jumps, and
\* trampolines exist for tracepoints of an injection in the process.
Consistent(m, s) ==
    /\ \A x \in Sites :
         /\ m.text[x] # "orig" => x \in s.tracepoints
         /\ m.text[x] = "bkpt" => <<"site", x>> \in s.jumps
         /\ x \in s.tracepoints => m.code[x] # "none"
         /\ x \in s.tracepoints /\ m.code[x] = "bkpt" => <<"ret", x>> \in s.jumps
    /\ \A j \in s.jumps : j[2] \in s.tracepoints /\ (j[1] = "ret" => FarReturns)
    /\ s.tracepoints # {} => s.injection /\ s.trampolines
    /\ s.trampolines => s.tracepoints # {} /\ m.trampoline = "rwx"
    /\ s.injection => m.here /\ m.injected
    /\ m.here /\ m.injected => s.injection

\* The parts of the memory and of the segment that tracepoint.c leaves alone.
SameRest(v, w) ==
    /\ w.m.here = v.m.here /\ w.m.injected = v.m.injected /\ w.m.noexec = v.m.noexec
    /\ w.s.injection = v.s.injection

\* A consistent pair is covered.
LEMMA ConsistentCovered ==
  ASSUME NEW m \in Memory, NEW s \in Segment, Consistent(m, s)
  PROVE  Covered(m, s)
BY DEF Consistent, Covered, Memory, Segment

\* trampoline_free removes every trampoline, if it succeeds, and nothing else.
LEMMA FreeShape ==
  ASSUME NEW v \in Pairs, NEW freed \in BOOLEAN
  PROVE  LET m == trampoline_free(v, freed)
         IN  /\ m \in Memory
             /\ freed => \A x \in Sites : m.code[x] = "none"
             /\ m.text = v.m.text /\ m.left = v.m.left
             /\ m.here = v.m.here /\ m.injected = v.m.injected /\ m.noexec = v.m.noexec
<1>1. v.m \in Memory /\ v.s \in Segment
  BY DEF Pairs
<1>2. FreshText.code \in [Sites -> {"none", "jump", "bkpt"}]
      /\ \A x \in Sites : FreshText.code[x] = "none"
  BY DEF FreshText
<1> QED BY <1>1, <1>2 DEF trampoline_free, Memory

\* tracepoints_cleanup that unpatches and frees leaves nothing the server knows
\* of, whatever fails; if nothing does, it leaves the original program.
LEMMA CleanupBare ==
  ASSUME NEW v \in Pairs, NEW r \in Removals, Covered(v.m, v.s)
  PROVE  LET w == tracepoints_cleanup(v, TRUE, TRUE, r)
         IN  /\ w \in Pairs /\ Bare(w.m, w.s) /\ SameRest(v, w)
             /\ r = Complete /\ Tidy(v.m, v.s) /\ (v.s.tracepoints # {} => v.s.trampolines)
                  => Tidy(w.m, w.s)
<1> DEFINE m == IF v.s.trampolines THEN trampoline_free(v, r.freed) ELSE v.m
           text == [x \in Sites |-> IF x \in v.s.tracepoints THEN "orig" ELSE m.text[x]]
           left == m.left \cup {x \in r.kept \cap v.s.tracepoints : m.text[x] # "orig"}
           n == [m EXCEPT !.text = text, !.left = left]
           s == [v.s EXCEPT !.trampolines = FALSE, !.tracepoints = {},
                            !.jumps = @ \ ({"site", "ret"} \X v.s.tracepoints)]
           w == tracepoints_cleanup(v, TRUE, TRUE, r)
<1>1. v.m \in Memory /\ v.s \in Segment /\ r.freed \in BOOLEAN /\ r.kept \subseteq Sites
  BY DEF Pairs, Removals
<1>2. /\ m \in Memory /\ m.text = v.m.text /\ m.left = v.m.left
      /\ m.here = v.m.here /\ m.injected = v.m.injected /\ m.noexec = v.m.noexec
      /\ v.s.trampolines /\ r.freed => \A x \in Sites : m.code[x] = "none"
      /\ ~v.s.trampolines => m.code = v.m.code
  <2>1. CASE v.s.trampolines
    BY <1>1, FreeShape, <2>1
  <2>2. CASE ~v.s.trampolines
    BY <1>1, <2>2
  <2> QED BY <2>1, <2>2
<1>3. w = [m |-> n, s |-> s]
  <2>1. w = [m |-> [m EXCEPT !.text = text,
                             !.left = @ \cup {x \in r.kept \cap v.s.tracepoints : m.text[x] # "orig"}],
             s |-> s]
    BY DEF tracepoints_cleanup
  <2> HIDE DEF m, text, s, w
  <2> QED BY <1>2, <2>1 DEF Memory
<1>4. text \in [Sites -> {"orig", "jump", "bkpt"}] /\ \A x \in Sites : text[x] = "orig"
  BY <1>1, <1>2 DEF Covered, Memory
<1>5. left \subseteq Sites /\ (r.kept = {} => left = v.m.left)
  BY <1>1, <1>2 DEF Memory
<1> HIDE DEF m, text, left
<1>6. /\ n \in Memory /\ n.left = left /\ n.code = m.code /\ \A x \in Sites : n.text[x] = "orig"
      /\ n.here = v.m.here /\ n.injected = v.m.injected /\ n.noexec = v.m.noexec
  BY <1>2, <1>4, <1>5 DEF Memory
<1>7. s \in Segment /\ s.tracepoints = {} /\ s.injection = v.s.injection /\ ~s.trampolines
  BY <1>1 DEF Segment
<1>8. s.jumps = {}
  BY <1>1 DEF Segment, Covered
<1> HIDE DEF n, s, w
<1>9. w.m = n /\ w.s = s /\ w \in Pairs
  BY <1>3, <1>6, <1>7 DEF Pairs
<1>10. w \in Pairs /\ Bare(w.m, w.s) /\ SameRest(v, w)
  BY <1>6, <1>7, <1>8, <1>9 DEF Bare, SameRest
<1>11. ASSUME r = Complete, Tidy(v.m, v.s), v.s.tracepoints # {} => v.s.trampolines
       PROVE  Tidy(w.m, w.s)
  <2>1. r.freed /\ r.kept = {}
    BY <1>11 DEF Complete
  <2>2. n.left = {} /\ \A x \in Sites : n.code[x] = "none"
    BY <1>2, <1>5, <1>6, <1>11, <2>1 DEF Tidy
  <2> QED BY <1>9, <2>2 DEF Tidy
<1> QED BY <1>10, <1>11 DEF w

Reached(c) == {x \in c.created : c.failed = 0 \/ x <= c.failed}
Back(c) == IF c.far THEN c.near ELSE Sites

\* What Install writes, field by field.
LEMMA InstallShape ==
  ASSUME NEW v \in Pairs, NEW c \in Choices
  PROVE  LET w == Install(v, c)
         IN  /\ w \in Pairs /\ SameRest(v, w)
             /\ w.m.trampoline = v.m.trampoline /\ w.m.left = v.m.left
             /\ w.s.tracepoints = v.s.tracepoints /\ w.s.trampolines = v.s.trampolines
             /\ w.s.jumps = v.s.jumps \cup ({"site"} \X (Reached(c) \ c.near))
                                      \cup ({"ret"} \X (Reached(c) \ Back(c)))
             /\ \A x \in Sites :
                  /\ w.m.text[x] = IF x \notin Reached(c) \ c.unpatched THEN v.m.text[x]
                                   ELSE IF x \in c.near THEN "jump" ELSE "bkpt"
                  /\ w.m.code[x] = IF x \notin Reached(c) \ {c.failed} THEN v.m.code[x]
                                   ELSE IF x \in Back(c) THEN "jump" ELSE "bkpt"
<1> DEFINE text == [x \in Sites |-> IF x \notin Reached(c) \ c.unpatched THEN v.m.text[x]
                                    ELSE IF x \in c.near THEN "jump" ELSE "bkpt"]
           code == [x \in Sites |-> IF x \notin Reached(c) \ {c.failed} THEN v.m.code[x]
                                    ELSE IF x \in Back(c) THEN "jump" ELSE "bkpt"]
           jumps == v.s.jumps \cup ({"site"} \X (Reached(c) \ c.near))
                              \cup ({"ret"} \X (Reached(c) \ Back(c)))
           n == [v.m EXCEPT !.text = text, !.code = code]
           s == [v.s EXCEPT !.jumps = jumps]
           w == Install(v, c)
<1>1. v.m \in Memory /\ v.s \in Segment /\ v = [m |-> v.m, s |-> v.s]
  BY DEF Pairs
<1>2. c.created \subseteq Sites
  BY DEF Choices
<1>3. w = [m |-> n, s |-> s]
  <2>1. w = [v EXCEPT !.m.text = text, !.m.code = code, !.s.jumps = jumps]
    BY Zenon DEF Install, Reached, Back
  <2> HIDE DEF text, code, jumps, w
  <2> QED BY <1>1, <2>1 DEF Memory, Segment
<1>4. /\ text \in [Sites -> {"orig", "jump", "bkpt"}]
      /\ code \in [Sites -> {"none", "jump", "bkpt"}]
  BY <1>1 DEF Memory
<1>5. jumps \subseteq {"site", "ret"} \X Sites
  BY <1>1, <1>2 DEF Segment, Reached
<1>6. \A x \in Sites : 
         /\ text[x] = IF x \notin Reached(c) \ c.unpatched THEN v.m.text[x]
                      ELSE IF x \in c.near THEN "jump" ELSE "bkpt"
         /\ code[x] = IF x \notin Reached(c) \ {c.failed} THEN v.m.code[x]
                      ELSE IF x \in Back(c) THEN "jump" ELSE "bkpt"
  OBVIOUS
<1> HIDE DEF text, code, jumps
<1>7. /\ n \in Memory /\ n.text = text /\ n.code = code /\ n.trampoline = v.m.trampoline
      /\ n.left = v.m.left
      /\ n.here = v.m.here /\ n.injected = v.m.injected /\ n.noexec = v.m.noexec
  BY <1>1, <1>4 DEF Memory
<1>8. /\ s \in Segment /\ s.jumps = jumps /\ s.injection = v.s.injection
      /\ s.tracepoints = v.s.tracepoints /\ s.trampolines = v.s.trampolines
  BY <1>1, <1>5 DEF Segment
<1> HIDE DEF n, s, w
<1>9. w.m = n /\ w.s = s /\ w \in Pairs
  BY <1>3, <1>7, <1>8 DEF Pairs
<1>10. SameRest(v, w)
  BY <1>7, <1>8, <1>9 DEF SameRest
<1> QED BY <1>6, <1>7, <1>8, <1>9, <1>10 DEF w, jumps

\* What allocate_trampoline leaves: the trampolines are ready unless there is no
\* memory for them.
LEMMA AllocateShape ==
  ASSUME NEW v \in Pairs, NEW c \in Choices
  PROVE  LET w == allocate_trampoline(v, c)
         IN  /\ w \in Pairs /\ SameRest(v, w)
             /\ w.m.text = v.m.text /\ w.m.left = v.m.left
             /\ w.s.tracepoints = v.s.tracepoints /\ w.s.jumps = v.s.jumps
             /\ c.memory = "none" => ~w.s.trampolines
             /\ c.memory # "none" => /\ w.s.trampolines /\ w.m.trampoline = "rwx"
                                     /\ \A x \in Sites : w.m.code[x] = "none"
<1> DEFINE b == c.memory # "none"
           st == v.s.trampoline_stolen \/ c.memory = "stolen"
           tr == IF c.memory = "none" THEN v.m.trampoline ELSE "rwx"
           code == IF c.memory = "none" THEN v.m.code ELSE FreshText.code
           n == [v.m EXCEPT !.trampoline = tr, !.code = code]
           s == [v.s EXCEPT !.trampolines = b, !.trampoline_stolen = st]
           w == allocate_trampoline(v, c)
<1>1. v.m \in Memory /\ v.s \in Segment /\ v = [m |-> v.m, s |-> v.s]
  BY DEF Pairs
<1>2. w = [v EXCEPT !.m.trampoline = tr, !.m.code = code, !.s.trampolines = b, !.s.trampoline_stolen = st]
  BY Zenon DEF allocate_trampoline
<1>3. b \in BOOLEAN /\ st \in BOOLEAN
  OBVIOUS
<1>4. tr \in {"unmapped", "rwx", "noaccess"} /\ (b => tr = "rwx")
  BY <1>1 DEF Memory
<1>13. code \in [Sites -> {"none", "jump", "bkpt"}] /\ (b => \A x \in Sites : code[x] = "none")
  BY <1>1 DEF Memory, FreshText
<1> HIDE DEF b, st, tr, code, w
<1>5. w = [m |-> n, s |-> s]
  BY <1>1, <1>2 DEF Memory, Segment
<1>6. /\ n \in Memory /\ n.text = v.m.text /\ n.code = code /\ n.left = v.m.left
      /\ n.trampoline = tr
      /\ n.here = v.m.here /\ n.injected = v.m.injected /\ n.noexec = v.m.noexec
  BY <1>1, <1>4, <1>13 DEF Memory
<1>7. /\ s \in Segment /\ s.jumps = v.s.jumps /\ s.injection = v.s.injection
      /\ s.tracepoints = v.s.tracepoints /\ s.trampolines = b
  BY <1>1, <1>3 DEF Segment
<1> HIDE DEF n, s
<1>8. w.m = n /\ w.s = s /\ w \in Pairs
  BY <1>5, <1>6, <1>7 DEF Pairs
<1>9. SameRest(v, w)
  BY <1>6, <1>7, <1>8 DEF SameRest
<1>10. w.s.trampolines <=> c.memory # "none"
  BY <1>7, <1>8 DEF b
<1>11. c.memory # "none" => w.m.trampoline = "rwx" /\ \A x \in Sites : w.m.code[x] = "none"
  BY <1>4, <1>6, <1>8, <1>13 DEF b
<1> QED BY <1>6, <1>7, <1>8, <1>9, <1>10, <1>11 DEF w

\* tracepoints_init of a segment without tracepoints leaves a consistent one,
\* whether it succeeds, finds no memory or fails while it writes, and nothing
\* behind it if nothing fails.
LEMMA InitConsistent ==
  ASSUME NEW v \in Pairs, NEW c \in Choices, Bare(v.m, v.s),
         v.s.injection <=> v.m.here /\ v.m.injected
  PROVE  LET w == tracepoints_init(v, c)
         IN  /\ w \in Pairs /\ Consistent(w.m, w.s) /\ SameRest(v, w)
             /\ ~Failing(c) /\ Tidy(v.m, v.s) => Tidy(w.m, w.s)
<1> DEFINE s == [v.s EXCEPT !.tracepoints = c.created]
           new == [v EXCEPT !.s.tracepoints = c.created]
           all == allocate_trampoline(new, c)
           ins == Install(all, c)
           w == tracepoints_init(v, c)
           Goal(p) == /\ p \in Pairs /\ Consistent(p.m, p.s) /\ SameRest(v, p)
                      /\ ~Failing(c) /\ Tidy(v.m, v.s) => Tidy(p.m, p.s)
<1>1. v.m \in Memory /\ v.s \in Segment /\ v = [m |-> v.m, s |-> v.s]
  BY DEF Pairs
<1>2. c.created \subseteq Sites /\ c.failed \in {0} \cup c.created /\ c.undo \in Removals
  BY DEF Choices
<1>3. /\ new \in Pairs /\ SameRest(v, new) /\ new.m = v.m
      /\ new.s.tracepoints = c.created /\ new.s.jumps = {}
  <2>1. new = [m |-> v.m, s |-> s]
    BY <1>1
  <2>2. s \in Segment /\ s.tracepoints = c.created /\ s.jumps = v.s.jumps
        /\ s.injection = v.s.injection
    BY <1>1, <1>2 DEF Segment
  <2> HIDE DEF s, new
  <2>3. new \in Pairs /\ new.m = v.m /\ new.s = s
    BY <2>1, <2>2, <1>1 DEF Pairs
  <2> QED BY <2>2, <2>3 DEF SameRest, Bare
<1>4. \A p \in Pairs : Bare(p.m, p.s) /\ SameRest(v, p)
           /\ (~Failing(c) /\ Tidy(v.m, v.s) => Tidy(p.m, p.s)) => Goal(p)
  BY DEF Bare, Consistent, SameRest, Pairs, Memory, Segment
<1> HIDE DEF new
<1>5. /\ all \in Pairs /\ SameRest(v, all)
      /\ all.m.left = v.m.left /\ \A x \in Sites : all.m.text[x] = "orig"
      /\ all.s.tracepoints = c.created /\ all.s.jumps = {}
      /\ c.memory = "none" => ~all.s.trampolines
      /\ c.memory # "none" => /\ all.s.trampolines /\ all.m.trampoline = "rwx"
                              /\ \A x \in Sites : all.m.code[x] = "none"
  BY <1>3, AllocateShape DEF SameRest, Bare
<1> HIDE DEF all
<1>6. CASE ~v.s.injection \/ c.created = {}
  <2>1. w = v
    BY <1>6 DEF tracepoints_init
  <2>2. SameRest(v, v)
    BY DEF SameRest
  <2>3. Goal(v)
    BY <1>4, <2>2
  <2> HIDE DEF w
  <2>4. Goal(w)
    BY <2>1, <2>3
  <2> QED BY <2>4 DEF w
<1>7. CASE v.s.injection /\ c.created # {} /\ c.memory = "none"
  <2>1. w = tracepoints_cleanup(all, TRUE, TRUE, c.undo)
    BY <1>7 DEF tracepoints_init, all, new
  <2>2. Covered(all.m, all.s)
    BY <1>5 DEF Covered
  <2> HIDE DEF w
  <2>3. w \in Pairs /\ Bare(w.m, w.s) /\ SameRest(all, w)
    BY <1>2, <1>5, <2>1, <2>2, CleanupBare
  <2>4. SameRest(v, w)
    BY <1>5, <2>3 DEF SameRest
  <2>5. Goal(w)
    BY <1>4, <1>7, <2>3, <2>4 DEF Failing
  <2> QED BY <2>5 DEF w
<1>8. CASE v.s.injection /\ c.created # {} /\ c.memory # "none"
  <2>1. /\ ins \in Pairs /\ SameRest(all, ins)
        /\ ins.m.trampoline = "rwx" /\ ins.m.left = v.m.left
        /\ ins.s.tracepoints = c.created /\ ins.s.trampolines
        /\ ins.s.jumps = ({"site"} \X (Reached(c) \ c.near)) \cup ({"ret"} \X (Reached(c) \ Back(c)))
        /\ \A x \in Sites :
                  /\ ins.m.text[x] = IF x \notin Reached(c) \ c.unpatched THEN "orig"
                                   ELSE IF x \in c.near THEN "jump" ELSE "bkpt"
                  /\ ins.m.code[x] = IF x \notin Reached(c) \ {c.failed} THEN "none"
                                   ELSE IF x \in Back(c) THEN "jump" ELSE "bkpt"
    BY <1>5, <1>8, InstallShape
  <2> HIDE DEF ins
  <2>4. c.failed \in c.created => c.failed # 0
    BY <1>2, SitesAssumption
  <2>2. CASE c.failed \in c.created
    <3>1. w = tracepoints_cleanup(ins, TRUE, TRUE, c.undo)
      BY <1>8, <2>2 DEF tracepoints_init, ins, all, new
    <3>2. Covered(ins.m, ins.s)
      BY <2>1 DEF Covered, Reached
    <3> HIDE DEF w
    <3>3. w \in Pairs /\ Bare(w.m, w.s) /\ SameRest(ins, w)
      BY <1>2, <2>1, <3>1, <3>2, CleanupBare
    <3>4. SameRest(v, w)
      BY <1>5, <2>1, <3>3 DEF SameRest
    <3>5. Goal(w)
      BY <1>4, <2>2, <2>4, <3>3, <3>4 DEF Failing
    <3> QED BY <3>5 DEF w
  <2>3. CASE c.failed \notin c.created
    <3>1. w = ins
      BY <1>8, <2>3 DEF tracepoints_init, ins, all, new
    <3>2. c.failed = 0 /\ Reached(c) = c.created /\ c.failed \notin c.created
      BY <1>2, <2>3 DEF Reached
    <3>3. \A x \in Sites :
            /\ ins.m.text[x] # "orig" => x \in ins.s.tracepoints
            /\ ins.m.text[x] = "bkpt" => <<"site", x>> \in ins.s.jumps
            /\ x \in ins.s.tracepoints => ins.m.code[x] # "none"
            /\ x \in ins.s.tracepoints /\ ins.m.code[x] = "bkpt" => <<"ret", x>> \in ins.s.jumps
            /\ ins.m.code[x] # "none" => x \in ins.s.tracepoints
      BY <2>1, <3>2
    <3>4. \A j \in ins.s.jumps : j[2] \in ins.s.tracepoints /\ (j[1] = "ret" => FarReturns)
      <4>1. \A j \in ins.s.jumps : j[2] \in ins.s.tracepoints
        BY <1>2, <2>1, <3>2
      <4>2. \A j \in ins.s.jumps : j[1] = "ret" => c.far
        BY <1>2, <2>1, <3>2 DEF Back
      <4>3. c.far => FarReturns
        BY BoundsAssumption DEF Choices
      <4> QED BY <4>1, <4>2, <4>3
    <3>5. SameRest(v, ins)
      BY <1>5, <2>1 DEF SameRest
    <3>6. Consistent(ins.m, ins.s)
      BY <1>8, <2>1, <3>3, <3>4, <3>5 DEF Consistent, SameRest
    <3>7. Tidy(v.m, v.s) => Tidy(ins.m, ins.s)
      BY <2>1, <3>3 DEF Tidy
    <3> QED BY <2>1, <3>1, <3>5, <3>6, <3>7
  <2> QED BY <2>2, <2>3
<1> QED BY <1>6, <1>7, <1>8

------------------------------------------------------------------------------
(* The threads                                                             *)

Artificial == {"tramp", "inj", "ret"}

\* A handler of the program is on top of natural code; the code the thread is in
\* is there; its breakpoint is known; its fault is one of protected code.  The
\* threads in hit may be anywhere; those in astray have met what a failure left.
Sound(t) ==
    /\ frames[t][1][1] # "sig"
    /\ Len(frames[t]) = 2 =>
         /\ frames[t][2][1] = "sig"
         /\ t \notin hit => frames[t][1][1] \notin Artificial
    /\ t \in Alive \ hit /\ frames[t][1][1] \in Artificial => frames[t][1][2] \in seg.tracepoints
    /\ t \in Alive \ hit /\ run[t] = "trap" => pc(t) \in seg.jumps
    /\ run[t] = "segv" => segment_check_address_is_code(pc(t))
    /\ run[t] = "dead" => t \in hit \cup astray

\* A stopped process is in natural code; nothing is left behind.
Phases ==
    /\ phase = "stopped" =>
         \A t \in Alive : /\ run[t] = "stop"
                          /\ t \notin hit => frames[t][1][1] \notin Artificial
    /\ phase = "stabilizing" => \A t \in Alive \ unstable : run[t] = "stop"
    /\ phase = "left" => seg.tracepoints = {}

Inv == TypeOK /\ Consistent(mem, seg) /\ (\A t \in Threads : Sound(t)) /\ Phases

\* The place a thread is at.
LEMMA PcPlace ==
  ASSUME TypeOK, NEW t \in Threads
  PROVE  /\ frames[t] \in Seq(Places) /\ frames[t][1] \in Places /\ pc(t) \in Places
         /\ Len(frames[t]) \in {1, 2}
         /\ Len(frames[t]) = 1 => pc(t) = frames[t][1]
         /\ Len(frames[t]) = 2 => pc(t) = frames[t][2]
BY ElementOfSeq DEF TypeOK, pc

\* Goto replaces the place on top.
LEMMA GotoShape ==
  ASSUME TypeOK, NEW t \in Threads, NEW p \in Places
  PROVE  LET f == Goto(t, p)
         IN  /\ f \in [Threads -> Seq(Places)]
             /\ \A u \in Threads \ {t} : f[u] = frames[u]
             /\ Len(f[t]) = Len(frames[t]) /\ f[t][Len(f[t])] = p
             /\ Len(frames[t]) = 1 => f[t][1] = p
             /\ Len(frames[t]) = 2 => f[t][1] = frames[t][1]
<1> DEFINE q == [frames[t] EXCEPT ![Len(frames[t])] = p]
           f == Goto(t, p)
<1>1. /\ frames \in [Threads -> Seq(Places)] /\ frames[t] \in Seq(Places)
      /\ Len(frames[t]) \in {1, 2}
  BY PcPlace DEF TypeOK
<1>2. /\ q \in Seq(Places) /\ Len(q) = Len(frames[t])
      /\ \A j \in 1..Len(frames[t]) : q[j] = IF j = Len(frames[t]) THEN p ELSE frames[t][j]
  <2>1. \A k \in {1, 2} : k \in 1..k
    OBVIOUS
  <2>2. ASSUME NEW r \in Seq(Places), NEW i \in 1..Len(r)
        PROVE  /\ [r EXCEPT ![i] = p] \in Seq(Places)
               /\ Len([r EXCEPT ![i] = p]) = Len(r)
               /\ \A j \in 1..Len(r) : [r EXCEPT ![i] = p][j] = IF j = i THEN p ELSE r[j]
    BY ExceptSeq
  <2> QED BY <1>1, <2>1, <2>2, Zenon
<1>3. f = [frames EXCEPT ![t] = q]
  BY DEF Goto
<1> HIDE DEF q, f
<1>4. f \in [Threads -> Seq(Places)] /\ f[t] = q /\ \A u \in Threads \ {t} : f[u] = frames[u]
  BY <1>1, <1>2, <1>3
<1>5. Len(f[t]) = Len(frames[t]) /\ f[t][Len(f[t])] = p
  BY <1>1, <1>2, <1>4
<1>6. Len(frames[t]) = 1 => f[t][1] = p
  BY <1>1, <1>2, <1>4
<1>7. Len(frames[t]) = 2 => f[t][1] = frames[t][1]
  BY <1>1, <1>2, <1>4
<1> QED BY <1>4, <1>5, <1>6, <1>7 DEF f

\* Executing one instruction.
LEMMA AfterShape ==
  ASSUME TypeOK, NEW p \in Places, NEW n \in After(p)
  PROVE  \/ n = <<"segv", 0>> /\ segment_check_address_is_code(p)
         \/ n = <<"lost", 0>> /\ (p[2] \in mem.left \/ (mem.noexec /\ phase # "stabilizing"))
         \/ p[1] = "nat" /\ n \in {"site"} \X Sites
         \/ p[1] = "site" /\ mem.text[p[2]] = "orig" /\ n = Nat0
         \/ p[1] = "site" /\ mem.text[p[2]] = "jump" /\ n = <<"tramp", p[2]>>
         \/ p[1] = "site" /\ mem.text[p[2]] = "bkpt" /\ n = <<"trap", 0>>
         \/ p[1] = "tramp" /\ n = <<"inj", p[2]>>
         \/ p[1] = "inj" /\ n = <<"ret", p[2]>>
         \/ p[1] = "ret" /\ mem.code[p[2]] = "jump" /\ n = Nat0
         \/ p[1] = "ret" /\ mem.code[p[2]] = "bkpt" /\ n = <<"trap", 0>>
         \/ p[1] \in {"tramp", "ret"} /\ n = <<"dead", 0>>
              /\ ~(mem.trampoline = "rwx" /\ mem.code[p[2]] # "none")
         \/ p[1] = "inj" /\ n = <<"dead", 0>> /\ ~mem.injected
<1>1. /\ p[1] \in {"nat", "sig", "site", "tramp", "inj", "ret"}
      /\ p[1] \in {"site", "tramp", "inj", "ret"} => p[2] \in Sites
  BY DEF Places
<1>2. CASE segment_check_address_is_code(p) /\ mem.noexec
  BY <1>2 DEF After
<1>3. CASE ~(segment_check_address_is_code(p) /\ mem.noexec)
  <2>1. CASE p[1] = "nat"
    BY <1>3, <2>1 DEF After
  <2>2. CASE p[1] = "sig"
    BY <1>3, <2>2 DEF After
  <2>3. CASE p[1] = "site"
    <3>1. mem.text[p[2]] \in {"orig", "jump", "bkpt"}
      BY <1>1, <2>3 DEF TypeOK, Memory
    <3> QED BY <1>3, <2>3, <3>1 DEF After
  <2>4. CASE p[1] = "tramp"
    BY <1>3, <2>4 DEF After
  <2>5. CASE p[1] = "inj"
    BY <1>3, <2>5 DEF After
  <2>6. CASE p[1] = "ret"
    <3>1. mem.code[p[2]] \in {"none", "jump", "bkpt"}
      BY <1>1, <2>6 DEF TypeOK, Memory
    <3> QED BY <1>3, <2>6, <3>1 DEF After
  <2> QED BY <1>1, <2>1, <2>2, <2>3, <2>4, <2>5, <2>6
<1> QED BY <1>2, <1>3

\* Nothing changes for a thread that neither moves nor changes state.
LEMMA SameThread ==
  ASSUME NEW u \in Threads, Sound(u), mem' = mem, seg' = seg,
         frames'[u] = frames[u], run'[u] = run[u], u \in hit' <=> u \in hit,
         astray \subseteq astray'
  PROVE  Sound(u)'
BY DEF Sound, Alive, pc, segment_check_address_is_code

\* In natural code and without a breakpoint, a thread does not depend on what is
\* installed.
LEMMA NaturalThread ==
  ASSUME NEW u \in Threads, Sound(u),
         u \in Alive' \ hit => frames[u][1][1] \notin Artificial /\ run[u] # "trap",
         frames' = frames, hit' = hit, astray' = astray, run'[u] \in {run[u], "run", "gone"},
         run'[u] = "dead" => run[u] = "dead"
  PROVE  Sound(u)'
BY DEF Sound, Alive, pc, segment_check_address_is_code

\* The frames of one thread change.
LEMMA FramesType ==
  ASSUME TypeOK, NEW t \in Threads, \A u \in Threads \ {t} : frames'[u] = frames[u],
         Len(frames'[t]) \in {1, 2}
  PROVE  \A u \in Threads : Len(frames'[u]) \in 1..2
<1>1. ASSUME NEW u \in Threads PROVE Len(frames'[u]) \in 1..2
  <2>1. CASE u = t
    BY <2>1
  <2>2. CASE u # t
    BY <2>2 DEF TypeOK
  <2> QED BY <2>1, <2>2
<1> QED BY <1>1

\* A step of one thread keeps the invariant if it does for that thread.
LEMMA OneThread ==
  ASSUME Inv, NEW t \in Threads, TypeOK', Sound(t)', phase # "stopped",
         phase = "stabilizing" => t \in unstable,
         \A u \in Threads \ {t} :
            frames'[u] = frames[u] /\ run'[u] = run[u] /\ (u \in hit' <=> u \in hit),
         astray \subseteq astray', UNCHANGED <<mem, seg, phase, unstable>>
  PROVE  Inv'
<1>1. \A u \in Threads : Sound(u)'
  BY SameThread DEF Inv
<1>2. Phases'
  BY DEF Inv, Phases, Alive
<1>3. Consistent(mem, seg)'
  BY DEF Inv, Consistent
<1> QED BY <1>1, <1>2, <1>3 DEF Inv

\* thread_trap: a thread at a breakpoint of the instrumentation goes on behind
\* it; another breakpoint is not the instrumentation's.
LEMMA TrapSound ==
  ASSUME Inv, NEW t \in Threads, run[t] = "trap", NEW resumed \in {"run", "stop"},
         thread_trap(t, resumed), phase # "stopped", phase = "stabilizing" => t \in unstable,
         UNCHANGED <<mem, seg, phase, unstable, hit, astray, signals, fails>>
  PROVE  Inv'
<1>1. /\ TypeOK /\ Sound(t) /\ pc(t) \in Places /\ Len(frames[t]) \in {1, 2}
      /\ Len(frames[t]) = 1 => pc(t) = frames[t][1]
      /\ Len(frames[t]) = 2 => pc(t) = frames[t][2]
  BY PcPlace DEF Inv
<1>2. CASE frames' = frames /\ (pc(t) \in seg.jumps \/ run'[t] = "dead")
  <2>1. /\ run' \in [Threads -> {"run", "trap", "segv", "stop", "dead", "gone"}]
        /\ run'[t] \in {"run", "stop", "dead"} /\ \A u \in Threads \ {t} : run'[u] = run[u]
        /\ run'[t] = "dead" => pc(t) \notin seg.jumps
    BY <1>1, <1>2 DEF thread_trap, TypeOK
  <2>2. TypeOK'
    BY <1>1, <1>2, <2>1 DEF TypeOK
  <2>3. Sound(t)'
    BY <1>1, <1>2, <2>1 DEF Sound, Alive, pc, segment_check_address_is_code
  <2> QED BY <1>2, <2>1, <2>2, <2>3, OneThread
<1>3. CASE pc(t) \in seg.jumps /\ frames' = Goto(t, Target(pc(t)))
  <2>1. pc(t)[1] \in {"site", "ret"} /\ pc(t)[2] \in Sites /\ pc(t)[2] \in seg.tracepoints
    BY <1>1, <1>3 DEF Inv, Consistent, TypeOK, Segment
  <2>2. Len(frames[t]) = 1
    BY <1>1, <2>1 DEF Sound
  <2>3. Target(pc(t)) \in Places
    BY <2>1 DEF Target, Places, Nat0
  <2>4. /\ run' \in [Threads -> {"run", "trap", "segv", "stop", "dead", "gone"}]
        /\ run'[t] \in {"run", "stop"} /\ \A u \in Threads \ {t} : run'[u] = run[u]
    BY <1>1, <1>3 DEF thread_trap, TypeOK
  <2>5. /\ frames' \in [Threads -> Seq(Places)] /\ \A u \in Threads \ {t} : frames'[u] = frames[u]
        /\ Len(frames'[t]) = 1 /\ frames'[t][1] = Target(pc(t))
    BY <1>1, <1>3, <2>2, <2>3, GotoShape
  <2>6. TypeOK'
    <3>1. \A u \in Threads : Len(frames'[u]) \in 1..2
      BY <1>1, <2>5, FramesType
    <3> QED BY <1>1, <2>4, <2>5, <3>1 DEF TypeOK
  <2>7. Target(pc(t))[1] \in {"tramp", "nat"}
        /\ (Target(pc(t))[1] = "tramp" => Target(pc(t))[2] = pc(t)[2])
    BY <2>1 DEF Target, Nat0
  <2>8. Sound(t)'
    BY <2>1, <2>4, <2>5, <2>7 DEF Sound, Alive, pc, Artificial
  <2> QED BY <2>4, <2>5, <2>6, <2>8, OneThread
<1> QED BY <1>1, <1>2, <1>3 DEF thread_trap, TypeOK

\* Executing an instruction: a thread outside hit finds the code it is in.
LEMMA StepSound == ASSUME Inv, NEW t \in Threads, Step(t) PROVE Inv'
<1>1. /\ TypeOK /\ Sound(t) /\ pc(t) \in Places /\ Len(frames[t]) \in {1, 2}
      /\ Len(frames[t]) = 1 => pc(t) = frames[t][1]
      /\ Len(frames[t]) = 2 => pc(t) = frames[t][2]
  BY PcPlace DEF Inv
<1>2. /\ run[t] = "run" /\ phase # "stopped" /\ (phase = "stabilizing" => t \in unstable)
      /\ UNCHANGED <<mem, seg, phase, unstable, signals, fails>>
  BY <1>1 DEF Step, Inv, Phases, Alive
<1>3. PICK n \in After(pc(t)) :
          \/ /\ n[1] \in {"segv", "trap", "dead"}
             /\ run' = [run EXCEPT ![t] = n[1]]
             /\ UNCHANGED <<frames, hit, astray>>
          \/ /\ n[1] = "lost"
             /\ run' = [run EXCEPT ![t] = "dead"]
             /\ astray' = astray \cup {t}
             /\ UNCHANGED <<frames, hit>>
          \/ /\ n \in Places
             /\ frames' = Goto(t, n)
             /\ hit' = IF n = Nat0 THEN hit \ {t} ELSE hit
             /\ UNCHANGED <<run, astray>>
  BY DEF Step
<1> DEFINE p == pc(t)
<1>4. \/ n = <<"segv", 0>> /\ segment_check_address_is_code(p)
      \/ n = <<"lost", 0>>
      \/ p[1] = "nat" /\ n \in {"site"} \X Sites
      \/ p[1] = "site" /\ mem.text[p[2]] = "orig" /\ n = Nat0
      \/ p[1] = "site" /\ mem.text[p[2]] = "jump" /\ n = <<"tramp", p[2]>>
      \/ p[1] = "site" /\ mem.text[p[2]] = "bkpt" /\ n = <<"trap", 0>>
      \/ p[1] = "tramp" /\ n = <<"inj", p[2]>>
      \/ p[1] = "inj" /\ n = <<"ret", p[2]>>
      \/ p[1] = "ret" /\ mem.code[p[2]] = "jump" /\ n = Nat0
      \/ p[1] = "ret" /\ mem.code[p[2]] = "bkpt" /\ n = <<"trap", 0>>
      \/ p[1] \in {"tramp", "ret"} /\ n = <<"dead", 0>>
           /\ ~(mem.trampoline = "rwx" /\ mem.code[p[2]] # "none")
      \/ p[1] = "inj" /\ n = <<"dead", 0>> /\ ~mem.injected
  BY <1>1, AfterShape
<1>5. t \in Alive /\ (p[1] \in Artificial /\ t \notin hit =>
         /\ Len(frames[t]) = 1 /\ p[2] \in Sites /\ p[2] \in seg.tracepoints
         /\ mem.code[p[2]] # "none" /\ mem.trampoline = "rwx" /\ mem.injected)
  <2>1. t \in Alive
    BY <1>2 DEF Alive
  <2>2. ASSUME p[1] \in Artificial, t \notin hit
        PROVE  Len(frames[t]) = 1 /\ p[2] \in Sites /\ p[2] \in seg.tracepoints
    BY <1>1, <2>1, <2>2 DEF Sound, Artificial, Places
  <2>3. ASSUME NEW x \in Sites, x \in seg.tracepoints
        PROVE  mem.code[x] # "none" /\ mem.trampoline = "rwx" /\ mem.injected
    BY <2>3 DEF Inv, Consistent
  <2> QED BY <2>1, <2>2, <2>3
<1>6. p[1] = "site" => p[2] \in Sites /\ p = <<"site", p[2]>>
  BY <1>1 DEF Places
<1>7. p[1] = "ret" => p[2] \in Sites /\ p = <<"ret", p[2]>>
  BY <1>1 DEF Places
<1> HIDE DEF p
<1>8. CASE /\ n[1] \in {"segv", "trap", "dead"}
           /\ run' = [run EXCEPT ![t] = n[1]]
           /\ UNCHANGED <<frames, hit, astray>>
  <2>1. /\ run' \in [Threads -> {"run", "trap", "segv", "stop", "dead", "gone"}]
        /\ run'[t] = n[1] /\ \A u \in Threads \ {t} : run'[u] = run[u]
    BY <1>1, <1>8 DEF TypeOK
  <2>2. TypeOK'
    BY <1>1, <1>2, <1>8, <2>1 DEF TypeOK
  <2>3. n[1] = "segv" => segment_check_address_is_code(p)
    BY <1>4 DEF Nat0
  <2>4. n[1] = "trap" /\ t \notin hit => p \in seg.jumps
    <3>1. n[1] = "trap" => \/ p[1] = "site" /\ mem.text[p[2]] = "bkpt"
                           \/ p[1] = "ret" /\ mem.code[p[2]] = "bkpt"
      BY <1>4 DEF Nat0
    <3> QED BY <1>5, <1>6, <1>7, <3>1 DEF Inv, Consistent, Artificial
  <2>5. n[1] = "dead" => t \in hit
    <3>1. n[1] = "dead" =>
              \/ p[1] \in {"tramp", "ret"} /\ ~(mem.trampoline = "rwx" /\ mem.code[p[2]] # "none")
              \/ p[1] = "inj" /\ ~mem.injected
      BY <1>4 DEF Nat0
    <3> QED BY <1>5, <3>1 DEF Artificial
  <2>6. Sound(t)'
    BY <1>1, <1>2, <1>5, <1>8, <2>1, <2>3, <2>4, <2>5
       DEF Sound, Alive, pc, p, segment_check_address_is_code
  <2> QED BY <1>2, <1>8, <2>1, <2>2, <2>6, OneThread
<1>9. CASE /\ n \in Places
           /\ frames' = Goto(t, n)
           /\ hit' = IF n = Nat0 THEN hit \ {t} ELSE hit
           /\ UNCHANGED <<run, astray>>
  <2>1. n[1] \notin {"segv", "lost", "trap", "dead", "sig"} /\ p[1] # "sig"
    BY <1>4, <1>9 DEF Places, Nat0, segment_check_address_is_code
  <2>2. Len(frames[t]) = 1
    BY <1>1, <2>1 DEF Sound, p
  <2>3. /\ frames' \in [Threads -> Seq(Places)] /\ \A u \in Threads \ {t} : frames'[u] = frames[u]
        /\ Len(frames'[t]) = 1 /\ frames'[t][1] = n
    BY <1>1, <1>9, <2>2, GotoShape
  <2>4. TypeOK'
    <3>1. \A u \in Threads : Len(frames'[u]) \in 1..2
      BY <1>1, <2>3, FramesType
    <3> QED BY <1>1, <1>2, <1>9, <2>3, <3>1 DEF TypeOK
  <2>5. n[1] \in Artificial /\ t \notin hit => n[2] \in seg.tracepoints
    <3>1. n[1] \in Artificial =>
            \/ p[1] = "site" /\ mem.text[p[2]] = "jump" /\ n[2] = p[2]
            \/ p[1] \in Artificial /\ n[2] = p[2]
      BY <1>4, <2>1 DEF Nat0, Artificial
    <3>2. p[1] = "site" /\ mem.text[p[2]] = "jump" => p[2] \in seg.tracepoints
      BY <1>6 DEF Inv, Consistent
    <3> QED BY <1>5, <3>1, <3>2
  <2>6. n[1] \in Artificial => n # Nat0
    BY DEF Nat0, Artificial
  <2>7. Sound(t)'
    BY <1>2, <1>9, <2>1, <2>3, <2>5, <2>6 DEF Sound, Alive
  <2> QED BY <1>2, <1>9, <2>3, <2>4, <2>7, OneThread
<1>10. CASE /\ n[1] = "lost"
            /\ run' = [run EXCEPT ![t] = "dead"]
            /\ astray' = astray \cup {t}
            /\ UNCHANGED <<frames, hit>>
  <2>1. /\ run' \in [Threads -> {"run", "trap", "segv", "stop", "dead", "gone"}]
        /\ run'[t] = "dead" /\ \A u \in Threads \ {t} : run'[u] = run[u]
    BY <1>1, <1>10 DEF TypeOK
  <2>2. TypeOK'
    BY <1>1, <1>2, <1>10, <2>1 DEF TypeOK
  <2>3. Sound(t)'
    BY <1>1, <1>10, <2>1 DEF Sound, Alive
  <2> QED BY <1>2, <1>10, <2>1, <2>2, <2>3, OneThread
<1> QED BY <1>3, <1>8, <1>9, <1>10

\* A signal: the thread is in hit from now on if it was in artificial code.
LEMMA InterruptSound == ASSUME Inv, NEW t \in Threads, Interrupt(t) PROVE Inv'
<1>1. /\ TypeOK /\ Sound(t) /\ frames[t] \in Seq(Places) /\ pc(t) = frames[t][1] /\ pc(t) \in Places
      /\ Len(frames[t]) = 1
  BY PcPlace DEF Inv, Interrupt
<1>2. /\ run[t] = "run" /\ phase # "stopped" /\ (phase = "stabilizing" => t \in unstable)
      /\ UNCHANGED <<mem, seg, run, phase, unstable, astray, fails>>
      /\ signals' \in 0..MaxSignals
  <2>1. signals \in 0..MaxSignals /\ signals < MaxSignals /\ signals' = signals + 1
    BY <1>1 DEF Interrupt, TypeOK
  <2>2. signals' \in 0..MaxSignals
    BY <2>1, BoundsAssumption
  <2> QED BY <1>1, <2>2 DEF Interrupt, Inv, Phases, Alive
<1>3. /\ frames' \in [Threads -> Seq(Places)] /\ \A u \in Threads \ {t} : frames'[u] = frames[u]
      /\ Len(frames'[t]) = 2 /\ frames'[t][1] = frames[t][1] /\ frames'[t][2] = <<"sig", 0>>
  <2>1. <<"sig", 0>> \in Places
    BY DEF Places
  <2>2. /\ Append(frames[t], <<"sig", 0>>) \in Seq(Places)
        /\ Len(Append(frames[t], <<"sig", 0>>)) = 2
        /\ Append(frames[t], <<"sig", 0>>)[1] = frames[t][1]
        /\ Append(frames[t], <<"sig", 0>>)[2] = <<"sig", 0>>
    BY <1>1, <2>1, AppendProperties
  <2> QED BY <1>1, <2>2 DEF Interrupt, TypeOK
<1>4. /\ hit' \subseteq Threads /\ \A u \in Threads \ {t} : u \in hit' <=> u \in hit
      /\ t \notin hit' => frames[t][1][1] \notin Artificial
  BY <1>1 DEF Interrupt, segment_check_address_is_code, TypeOK, Artificial
<1>5. TypeOK'
  <2>1. \A u \in Threads : Len(frames'[u]) \in 1..2
    BY <1>1, <1>3, FramesType
  <2> QED BY <1>1, <1>2, <1>3, <1>4, <2>1 DEF TypeOK
<1>6. Sound(t)'
  BY <1>1, <1>2, <1>3, <1>4 DEF Sound, Alive
<1> QED BY <1>2, <1>3, <1>4, <1>5, <1>6, OneThread

\* The handler returns: to natural code, or the thread is in hit.
LEMMA SigReturnSound == ASSUME Inv, NEW t \in Threads, SigReturn(t) PROVE Inv'
<1>1. /\ TypeOK /\ Sound(t) /\ frames[t] \in Seq(Places) /\ frames[t][1] \in Places
      /\ Len(frames[t]) = 2
  BY PcPlace DEF Inv, SigReturn
<1>2. /\ run[t] = "run" /\ phase # "stopped" /\ (phase = "stabilizing" => t \in unstable)
      /\ UNCHANGED <<mem, seg, run, phase, unstable, hit, astray, signals, fails>>
  BY <1>1 DEF SigReturn, Inv, Phases, Alive
<1>3. /\ frames' \in [Threads -> Seq(Places)] /\ \A u \in Threads \ {t} : frames'[u] = frames[u]
      /\ Len(frames'[t]) = 1 /\ frames'[t][1] = frames[t][1]
  <2>1. /\ SubSeq(frames[t], 1, 1) \in Seq(Places) /\ Len(SubSeq(frames[t], 1, 1)) = 1
        /\ SubSeq(frames[t], 1, 1)[1] = frames[t][1]
    BY <1>1, SubSeqProperties
  <2> QED BY <1>1, <2>1 DEF SigReturn, TypeOK
<1>4. TypeOK'
  <2>1. \A u \in Threads : Len(frames'[u]) \in 1..2
    BY <1>1, <1>3, FramesType
  <2> QED BY <1>1, <1>2, <1>3, <2>1 DEF TypeOK
<1>5. Sound(t)'
  BY <1>1, <1>2, <1>3 DEF Sound, Alive
<1> QED BY <1>2, <1>3, <1>4, <1>5, OneThread

\* A thread is stopped, after its breakpoint was handled.
LEMMA ThreadStopSound == ASSUME Inv, NEW t \in Threads, thread_stop(t) PROVE Inv'
<1>1. TypeOK /\ Sound(t) /\ phase = "stopping"
      /\ UNCHANGED <<mem, seg, phase, unstable, hit, astray, signals, fails>>
  BY DEF Inv, thread_stop
<1>2. CASE run[t] = "run" /\ run' = [run EXCEPT ![t] = "stop"] /\ UNCHANGED frames
  <2>1. /\ run' \in [Threads -> {"run", "trap", "segv", "stop", "dead", "gone"}]
        /\ run'[t] = "stop" /\ \A u \in Threads \ {t} : run'[u] = run[u]
    BY <1>1, <1>2 DEF TypeOK
  <2>2. TypeOK'
    BY <1>1, <1>2, <2>1 DEF TypeOK
  <2>3. Sound(t)'
    BY <1>1, <1>2, <2>1 DEF Sound, Alive
  <2> QED BY <1>1, <1>2, <2>1, <2>2, <2>3, OneThread
<1>3. CASE run[t] = "trap" /\ thread_trap(t, "stop")
  BY <1>1, <1>3, TrapSound
<1> QED BY <1>2, <1>3 DEF thread_stop

\* A thread of process_stabilize comes to a stop: at its breakpoint, or at the
\* protected code.
LEMMA StabilizeWaitSound == ASSUME Inv, NEW t \in Threads, StabilizeWait(t) PROVE Inv'
<1>1. /\ TypeOK /\ Sound(t) /\ phase = "stabilizing" /\ t \in unstable
      /\ UNCHANGED <<mem, seg, phase, unstable, hit, astray, signals, fails>>
  BY DEF Inv, StabilizeWait
<1>2. CASE run[t] = "trap" /\ thread_trap(t, "stop")
  BY <1>1, <1>2, TrapSound
<1>3. CASE /\ run[t] = "segv" /\ UNCHANGED frames
           /\ run' = [run EXCEPT ![t] = IF segment_check_address_is_code(pc(t)) THEN "stop" ELSE "dead"]
  <2>1. segment_check_address_is_code(pc(t))
    BY <1>1, <1>3 DEF Sound
  <2>2. /\ run' \in [Threads -> {"run", "trap", "segv", "stop", "dead", "gone"}]
        /\ run'[t] = "stop" /\ \A u \in Threads \ {t} : run'[u] = run[u]
    BY <1>1, <1>3, <2>1 DEF TypeOK
  <2>3. TypeOK'
    BY <1>1, <1>3, <2>2 DEF TypeOK
  <2>4. Sound(t)'
    BY <1>1, <1>3, <2>2 DEF Sound, Alive
  <2> QED BY <1>1, <1>3, <2>2, <2>3, <2>4, OneThread
<1> QED BY <1>2, <1>3 DEF StabilizeWait

\* wait_main; when the server has left, no breakpoint of its own is there.
LEMMA MainTrapSound == ASSUME Inv, NEW t \in Threads, Trap(t) PROVE Inv'
<1>1. /\ TypeOK /\ Sound(t) /\ phase \in {"loop", "left"} /\ run[t] = "trap"
      /\ UNCHANGED <<mem, seg, phase, unstable, hit, astray, signals, fails>>
  BY DEF Inv, Trap
<1>2. CASE phase = "loop"
  BY <1>1, <1>2, TrapSound DEF Trap
<1>3. CASE phase = "left"
  <2>1. t \in hit
    <3>1. \A j \in seg.jumps : j[2] \in Sites /\ j[2] \in seg.tracepoints
      BY <1>1 DEF Inv, Consistent, TypeOK, Segment
    <3>2. seg.jumps = {}
      BY <1>3, <3>1 DEF Inv, Phases
    <3> QED BY <1>1, <3>2 DEF Sound, Alive
  <2>2. /\ run' \in [Threads -> {"run", "trap", "segv", "stop", "dead", "gone"}] /\ frames' = frames
        /\ run'[t] = "dead" /\ \A u \in Threads \ {t} : run'[u] = run[u]
    BY <1>1, <1>3 DEF TypeOK, Trap
  <2>3. TypeOK'
    BY <1>1, <2>2 DEF TypeOK
  <2>4. Sound(t)'
    BY <1>1, <2>1, <2>2 DEF Sound, Alive
  <2> QED BY <1>1, <2>2, <2>3, <2>4, OneThread
<1> QED BY <1>1, <1>2, <1>3

------------------------------------------------------------------------------
(* Steps of the whole process                                              *)

\* process_stop_stabilize asks for the stop and nothing else.
LEMMA StopStabilizeSound == Inv /\ process_stop_stabilize => Inv'
<1> SUFFICES ASSUME Inv, process_stop_stabilize PROVE Inv'
  OBVIOUS
<1>1. TypeOK' /\ Phases' /\ Consistent(mem, seg)'
  BY DEF Inv, TypeOK, Phases, Consistent, process_stop_stabilize
<1>2. \A t \in Threads : Sound(t)'
  BY SameThread DEF Inv, process_stop_stabilize
<1> QED BY <1>1, <1>2 DEF Inv

\* A thread that thread_is_stable takes for stable is in natural code or in hit.
LEMMA StableNatural ==
  ASSUME Inv, NEW t \in Alive \ hit, t \notin process_find_unstable
  PROVE  frames[t][1][1] \notin Artificial
<1>1. t \in Threads /\ TypeOK /\ Sound(t)
  BY DEF Alive, Inv
<1>2. SUFFICES ASSUME frames[t][1][1] \in Artificial PROVE FALSE
  OBVIOUS
<1>3. frames[t][1] \in Places /\ pc(t) = frames[t][1] /\ frames[t][1][2] \in Sites
  BY <1>1, <1>2, PcPlace DEF Sound, Places, Artificial
<1>4. frames[t][1][2] \in seg.tracepoints
  BY <1>1, <1>2 DEF Sound
<1>5. seg.injection /\ seg.trampolines
  BY <1>3, <1>4 DEF Inv, Consistent
<1>6. ~thread_is_stable(t)
  BY <1>2, <1>3, <1>5 DEF thread_is_stable, address_is_artificial, address_is_injection,
                          segment_get_by_trampoline, Artificial
<1> QED BY <1>6 DEF process_find_unstable

\* A change of noexec alone touches nothing the invariant is about.
LEMMA ProtectConsistent ==
  ASSUME NEW b \in BOOLEAN, TypeOK, Consistent(mem, seg), mem' = [mem EXCEPT !.noexec = b]
  PROVE  /\ mem' \in Memory /\ mem'.code = mem.code /\ mem'.left = mem.left /\ mem'.noexec = b
         /\ seg' = seg => Consistent(mem, seg)'
<1>1. /\ mem' \in Memory /\ mem'.code = mem.code /\ mem'.text = mem.text
      /\ mem'.left = mem.left /\ mem'.noexec = b
      /\ mem'.trampoline = mem.trampoline /\ mem'.here = mem.here /\ mem'.injected = mem.injected
  BY DEF TypeOK, Memory
<1> QED BY <1>1 DEF Consistent

\* The failures are counted.
LEMMA FailsBound ==
  ASSUME TypeOK, NEW failing \in BOOLEAN, Fail(failing)
  PROVE  /\ fails' \in 0..MaxFails
         /\ fails' = 0 => fails = 0 /\ ~failing
<1>1. fails \in Nat /\ fails' = fails + (IF failing THEN 1 ELSE 0) /\ fails' <= MaxFails
  BY BoundsAssumption DEF TypeOK, Fail
<1> QED BY <1>1, BoundsAssumption

\* process_stabilize: all threads are stopped; the unstable ones run again.
LEMMA StabilizeSound ==
  ASSUME Inv, NEW protect \in BOOLEAN, process_stabilize(protect) PROVE Inv'
<1>1. TypeOK /\ Consistent(mem, seg) /\ phase = "stopping" /\ \A t \in Alive : run[t] = "stop"
  BY DEF Inv, process_stabilize
<1>2. UNCHANGED <<seg, frames, hit, astray, signals>>
  BY DEF process_stabilize
<1>3. CASE process_find_unstable = {}
  <2>1. phase' = "stopped" /\ UNCHANGED <<mem, run, unstable, fails>>
    BY <1>3 DEF process_stabilize
  <2>2. \A t \in Alive : t \notin hit => frames[t][1][1] \notin Artificial
    BY <1>3, StableNatural
  <2>3. TypeOK' /\ Consistent(mem, seg)'
    BY <1>1, <1>2, <2>1 DEF TypeOK, Consistent
  <2>4. Phases'
    BY <1>1, <1>2, <2>1, <2>2 DEF Phases, Alive
  <2>5. \A t \in Threads : Sound(t)'
    BY <1>2, <2>1, SameThread DEF Inv
  <2> QED BY <2>3, <2>4, <2>5 DEF Inv
<1>4. CASE process_find_unstable # {}
  <2>1. /\ fails' \in 0..MaxFails /\ mem' = [mem EXCEPT !.noexec = @ \/ protect]
        /\ unstable' = process_find_unstable /\ phase' = "stabilizing"
        /\ run' = [t \in Threads |-> IF t \in process_find_unstable THEN "run" ELSE run[t]]
    <3>1. (~protect) \in BOOLEAN
      OBVIOUS
    <3>2. fails' \in 0..MaxFails
      BY <1>1, <1>4, <3>1, FailsBound DEF process_stabilize
    <3> QED BY <1>4, <3>2 DEF process_stabilize
  <2>2. process_find_unstable \subseteq Alive /\ Alive \subseteq Threads
    BY DEF process_find_unstable, Alive
  <2>3. mem' \in Memory /\ Consistent(mem, seg)'
    <3>1. (mem.noexec \/ protect) \in BOOLEAN /\ mem' = [mem EXCEPT !.noexec = mem.noexec \/ protect]
      BY <2>1
    <3> QED BY <1>1, <1>2, <3>1, ProtectConsistent
  <2>4. run' \in [Threads -> {"run", "trap", "segv", "stop", "dead", "gone"}]
    BY <1>1, <2>1 DEF TypeOK
  <2>5. TypeOK'
    BY <1>1, <1>2, <2>1, <2>2, <2>3, <2>4 DEF TypeOK
  <2>6. Phases'
    BY <1>1, <1>2, <2>1, <2>2 DEF Phases, Alive
  <2>7. ASSUME NEW t \in Threads PROVE Sound(t)'
    <3>1. Sound(t)
      BY DEF Inv
    <3>2. CASE t \in process_find_unstable
      BY <1>1, <1>2, <2>1, <2>2, <2>3, <3>1, <3>2 DEF Sound, Alive
    <3>3. CASE t \notin process_find_unstable
      BY <1>1, <1>2, <2>1, <2>2, <2>3, <3>1, <3>3 DEF Sound, Alive, pc, segment_check_address_is_code
    <3> QED BY <3>2, <3>3
  <2> QED BY <2>3, <2>5, <2>6, <2>7 DEF Inv
<1> QED BY <1>3, <1>4

\* The protection is reverted; the assertion tells whether all threads are stable.
LEMMA StabilizeDoneSound ==
  ASSUME Inv, NEW revert \in BOOLEAN, StabilizeDone(revert) PROVE Inv'
<1>1. /\ TypeOK /\ Consistent(mem, seg) /\ phase = "stabilizing"
      /\ mem' = [mem EXCEPT !.noexec = mem.noexec /\ ~revert] /\ unstable' = {}
      /\ phase' = IF process_find_unstable = {} THEN "stopped" ELSE "bug"
      /\ UNCHANGED <<seg, frames, run, hit, astray, signals>>
  BY DEF Inv, StabilizeDone
<1>2. \A t \in Alive : run[t] = "stop"
  BY DEF Inv, Phases, StabilizeDone, Alive
<1>3. (mem.noexec /\ ~revert) \in BOOLEAN /\ (~revert) \in BOOLEAN
  OBVIOUS
<1>4. mem' \in Memory /\ Consistent(mem, seg)'
  BY <1>1, <1>3, ProtectConsistent
<1>5. TypeOK'
  <2>1. fails' \in 0..MaxFails
    BY <1>1, <1>3, FailsBound DEF StabilizeDone
  <2> QED BY <1>1, <1>4, <2>1 DEF TypeOK
<1>6. Phases'
  <2>1. phase' = "stopped" => \A t \in Alive : t \notin hit => frames[t][1][1] \notin Artificial
    BY <1>1, StableNatural
  <2>2. phase' \in {"stopped", "bug"}
    BY <1>1
  <2> QED BY <1>1, <1>2, <2>1, <2>2 DEF Phases, Alive
<1>7. ASSUME NEW t \in Threads PROVE Sound(t)'
  <2>1. Sound(t)
    BY DEF Inv
  <2> QED BY <1>1, <2>1 DEF Sound, Alive, pc, segment_check_address_is_code
<1> QED BY <1>4, <1>5, <1>6, <1>7 DEF Inv

\* A consistent process without an injection has nothing installed.
LEMMA NoInjectionBare ==
  ASSUME NEW m \in Memory, NEW s \in Segment, Consistent(m, s), ~s.injection
  PROVE  Bare(m, s)
<1>1. s.tracepoints = {} /\ ~s.trampolines
  BY DEF Consistent
<1>2. \A x \in Sites : m.text[x] = "orig"
  BY <1>1 DEF Consistent
<1>3. s.jumps = {}
  BY <1>1 DEF Consistent, Segment
<1> QED BY <1>1, <1>2, <1>3 DEF Bare

\* A stopped process may be instrumented anew: no thread depends on what is there.
LEMMA StoppedSound ==
  ASSUME Inv, phase = "stopped", mem' \in Memory, seg' \in Segment, Consistent(mem, seg)',
         fails' \in 0..MaxFails, UNCHANGED <<frames, run, phase, unstable, hit, astray, signals>>
  PROVE  Inv'
<1>1. TypeOK' /\ Phases'
  BY DEF Inv, TypeOK, Phases, Alive
<1>2. ASSUME NEW t \in Threads PROVE Sound(t)'
  <2>1. t \in Alive \ hit => frames[t][1][1] \notin Artificial /\ run[t] = "stop"
    BY DEF Inv, Phases
  <2>2. Sound(t)
    BY DEF Inv
  <2> QED BY <2>1, <2>2 DEF Sound, Alive, pc, segment_check_address_is_code
<1> QED BY <1>1, <1>2 DEF Inv

\* segment_attach_injectable: the injection, then its tracepoints.
LEMMA AttachSound ==
  ASSUME Inv, NEW c \in Choices, segment_attach_injectable(c)
  PROVE  Inv' /\ (~Failing(c) /\ Tidy(mem, seg) => Tidy(mem', seg')) /\ mem'.noexec = mem.noexec
<1> DEFINE m == [mem EXCEPT !.injected = TRUE]
           s == [seg EXCEPT !.injection = TRUE]
           v == [m |-> m, s |-> s]
           w == tracepoints_init(v, c)
<1>1. /\ mem \in Memory /\ seg \in Segment /\ TypeOK /\ Consistent(mem, seg)
      /\ phase = "stopped" /\ mem.here /\ ~seg.injection
      /\ UNCHANGED <<frames, run, phase, unstable, hit, astray, signals>>
      /\ fails' \in 0..MaxFails
  <2>1. Failing(c) \in BOOLEAN
    BY DEF Failing
  <2> QED BY <2>1, FailsBound DEF Inv, TypeOK, segment_attach_injectable
<1>2. Bare(mem, seg)
  BY <1>1, NoInjectionBare
<1>3. m \in Memory /\ m.text = mem.text /\ m.code = mem.code /\ m.here /\ m.injected
      /\ m.left = mem.left /\ m.noexec = mem.noexec
  BY <1>1 DEF Memory
<1>4. s \in Segment /\ s.injection /\ s.tracepoints = seg.tracepoints /\ s.jumps = seg.jumps
      /\ s.trampolines = seg.trampolines
  BY <1>1 DEF Segment
<1>5. mem' = w.m /\ seg' = w.s
  BY DEF segment_attach_injectable
<1> HIDE DEF m, s
<1>6. v \in Pairs /\ v.m = m /\ v.s = s
  BY <1>3, <1>4 DEF Pairs
<1> HIDE DEF v
<1>7. Bare(v.m, v.s) /\ (v.s.injection <=> v.m.here /\ v.m.injected)
  BY <1>2, <1>3, <1>4, <1>6 DEF Bare
<1>8. /\ w \in Pairs /\ Consistent(w.m, w.s) /\ w.m.noexec = mem.noexec
      /\ ~Failing(c) /\ Tidy(mem, seg) => Tidy(w.m, w.s)
  <2>1. Tidy(mem, seg) => Tidy(v.m, v.s)
    BY <1>3, <1>4, <1>5, <1>6 DEF Tidy
  <2> QED BY <1>3, <1>4, <1>6, <1>7, <2>1, InitConsistent DEF SameRest
<1> HIDE DEF w
<1>9. mem' \in Memory /\ seg' \in Segment /\ Consistent(mem, seg)'
  BY <1>5, <1>8 DEF Pairs, Consistent
<1>10. Inv'
  BY <1>1, <1>9, StoppedSound
<1> QED BY <1>5, <1>8, <1>10

\* Removing the tracepoints, then the injection, leaves nothing installed, and
\* the original program if nothing fails.
LEMMA DetachedBare ==
  ASSUME Inv, NEW r \in Removals, NEW w, w = tracepoints_detach([m |-> mem, s |-> seg], r)
  PROVE  /\ [w.m EXCEPT !.injected = FALSE] \in Memory
         /\ w.s \in Segment /\ w.s.jumps = {}
         /\ \A s \in Segment : Bare(w.m, s) /\ ~s.injection =>
               Consistent([w.m EXCEPT !.injected = FALSE], s)
         /\ Bare(w.m, w.s)
         /\ [w.m EXCEPT !.injected = FALSE].noexec = mem.noexec
         /\ r = Complete /\ Tidy(mem, seg) =>
               \A s \in Segment : Tidy([w.m EXCEPT !.injected = FALSE], s)
<1> DEFINE v == [m |-> mem, s |-> seg]
           n == [w.m EXCEPT !.injected = FALSE]
<1>1. v \in Pairs /\ v.m = mem /\ v.s = seg
  BY DEF Inv, TypeOK, Pairs
<1>2. Covered(mem, seg) /\ (seg.tracepoints # {} => seg.trampolines)
  BY ConsistentCovered DEF Inv, TypeOK, Consistent
<1>3. w = tracepoints_cleanup(v, TRUE, TRUE, r)
  BY DEF tracepoints_detach
<1> HIDE DEF v
<1>4. /\ w \in Pairs /\ Bare(w.m, w.s) /\ w.m.noexec = mem.noexec
      /\ r = Complete /\ Tidy(mem, seg) => Tidy(w.m, w.s)
  BY <1>1, <1>2, <1>3, CleanupBare DEF SameRest
<1>5. w.m \in Memory /\ w.s \in Segment
  BY <1>4 DEF Pairs
<1>6. /\ n \in Memory /\ n.text = w.m.text /\ n.code = w.m.code /\ ~n.injected
      /\ n.left = w.m.left /\ n.noexec = w.m.noexec
  BY <1>5 DEF Memory
<1>7. ASSUME NEW s \in Segment, Bare(w.m, s), ~s.injection PROVE Consistent(n, s)
  <2> HIDE DEF n
  <2> QED BY <1>6, <1>7 DEF Bare, Consistent
<1>8. ASSUME r = Complete, Tidy(mem, seg), NEW s \in Segment PROVE Tidy(n, s)
  <2> HIDE DEF n
  <2> QED BY <1>4, <1>6, <1>8 DEF Bare, Tidy
<1> QED BY <1>4, <1>5, <1>6, <1>7, <1>8 DEF Bare

\* segment_detach_injectable.
LEMMA DetachSound ==
  ASSUME Inv, NEW r \in Removals, segment_detach_injectable(r)
  PROVE  Inv' /\ (r = Complete /\ Tidy(mem, seg) => Tidy(mem', seg')) /\ mem'.noexec = mem.noexec
<1> DEFINE w == tracepoints_detach([m |-> mem, s |-> seg], r)
           s == [w.s EXCEPT !.injection = FALSE]
<1>1. /\ phase = "stopped" /\ mem' = [w.m EXCEPT !.injected = FALSE] /\ seg' = s
      /\ UNCHANGED <<frames, run, phase, unstable, hit, astray, signals>>
  BY DEF segment_detach_injectable
<1>2. /\ [w.m EXCEPT !.injected = FALSE] \in Memory /\ w.s \in Segment /\ Bare(w.m, w.s)
      /\ \A x \in Segment : Bare(w.m, x) /\ ~x.injection =>
               Consistent([w.m EXCEPT !.injected = FALSE], x)
      /\ [w.m EXCEPT !.injected = FALSE].noexec = mem.noexec
      /\ r = Complete /\ Tidy(mem, seg) =>
               \A x \in Segment : Tidy([w.m EXCEPT !.injected = FALSE], x)
  BY DetachedBare
<1> HIDE DEF w
<1>3. /\ s \in Segment /\ ~s.injection /\ s.tracepoints = w.s.tracepoints /\ s.jumps = w.s.jumps
      /\ s.trampolines = w.s.trampolines
  BY <1>2 DEF Segment
<1> HIDE DEF s
<1>4. Bare(w.m, s)
  BY <1>2, <1>3 DEF Bare
<1>5. mem' \in Memory /\ seg' \in Segment /\ Consistent(mem, seg)'
  <2>1. Consistent(mem', seg')
    BY <1>1, <1>2, <1>3, <1>4
  <2> QED BY <1>1, <1>2, <1>3, <2>1 DEF Consistent
<1>6. fails' \in 0..MaxFails
  <2>1. (r # Complete) \in BOOLEAN
    OBVIOUS
  <2> QED BY <2>1, FailsBound DEF Inv, segment_detach_injectable
<1>7. Inv'
  BY <1>1, <1>5, <1>6, StoppedSound
<1> QED BY <1>1, <1>2, <1>3, <1>7

\* The threads of a stopped process run on, whatever the instrumentation is now.
LEMMA ResumedSound ==
  ASSUME Inv, phase = "stopped", phase' \in {"loop", "left"}, phase' = "left" => seg'.tracepoints = {},
         mem' \in Memory, seg' \in Segment, Consistent(mem, seg)', run' = Resumed,
         fails' \in 0..MaxFails, UNCHANGED <<frames, unstable, hit, astray, signals>>
  PROVE  Inv'
<1>1. /\ run' \in [Threads -> {"run", "trap", "segv", "stop", "dead", "gone"}]
      /\ \A t \in Threads : run'[t] = IF run[t] = "stop" THEN "run" ELSE run[t]
  BY DEF Resumed, Inv, TypeOK
<1>2. TypeOK' /\ Phases'
  BY <1>1 DEF Inv, TypeOK, Phases
<1>3. ASSUME NEW t \in Threads PROVE Sound(t)'
  <2>1. t \in Alive \ hit => frames[t][1][1] \notin Artificial /\ run[t] = "stop"
    BY DEF Inv, Phases
  <2>2. Sound(t) /\ (run'[t] \in {"dead", "gone"} <=> run[t] \in {"dead", "gone"})
    BY <1>1 DEF Inv
  <2> QED BY <1>1, <2>1, <2>2 DEF Sound, Alive, pc, segment_check_address_is_code
<1> QED BY <1>2, <1>3 DEF Inv

\* process_detach leaves nothing installed that the server knows of.
LEMMA ProcessDetachSound ==
  ASSUME Inv, NEW r \in Removals, process_detach(r)
  PROVE  Inv' /\ (r = Complete /\ Tidy(mem, seg) => Tidy(mem', seg')) /\ mem'.noexec = mem.noexec
<1> DEFINE w == tracepoints_detach([m |-> mem, s |-> seg], r)
           s == [NoTracepoints EXCEPT !.jumps = w.s.jumps]
<1>1. /\ phase = "stopped" /\ mem' = [w.m EXCEPT !.injected = FALSE] /\ seg' = s
      /\ run' = Resumed /\ phase' = "left" /\ UNCHANGED <<frames, unstable, hit, astray, signals>>
  BY DEF process_detach
<1>2. /\ [w.m EXCEPT !.injected = FALSE] \in Memory /\ Bare(w.m, w.s) /\ w.s.jumps = {}
      /\ \A x \in Segment : Bare(w.m, x) /\ ~x.injection =>
               Consistent([w.m EXCEPT !.injected = FALSE], x)
      /\ [w.m EXCEPT !.injected = FALSE].noexec = mem.noexec
      /\ r = Complete /\ Tidy(mem, seg) =>
               \A x \in Segment : Tidy([w.m EXCEPT !.injected = FALSE], x)
  BY DetachedBare
<1> HIDE DEF w
<1>3. s \in Segment /\ ~s.injection /\ s.tracepoints = {} /\ s.jumps = {} /\ ~s.trampolines
  BY <1>2 DEF Segment, NoTracepoints
<1> HIDE DEF s
<1>4. Bare(w.m, s)
  BY <1>2, <1>3 DEF Bare
<1>5. mem' \in Memory /\ seg' \in Segment /\ Consistent(mem, seg)'
  <2>1. Consistent(mem', seg')
    BY <1>1, <1>2, <1>3, <1>4
  <2> QED BY <1>1, <1>2, <1>3, <2>1 DEF Consistent
<1>6. fails' \in 0..MaxFails
  <2>1. (r # Complete) \in BOOLEAN
    OBVIOUS
  <2> QED BY <2>1, FailsBound DEF Inv, process_detach
<1>7. Inv'
  BY <1>1, <1>3, <1>5, <1>6, ResumedSound
<1> QED BY <1>1, <1>2, <1>3, <1>7

\* process_continue.
LEMMA ProcessContinueSound == Inv /\ process_continue => Inv'
<1> SUFFICES ASSUME Inv, process_continue PROVE Inv'
  OBVIOUS
<1>1. /\ phase = "stopped" /\ run' = Resumed /\ phase' = "loop"
      /\ UNCHANGED <<mem, seg, frames, unstable, hit, astray, signals, fails>>
  BY DEF process_continue
<1>2. mem' \in Memory /\ seg' \in Segment /\ Consistent(mem, seg)' /\ fails' \in 0..MaxFails
  BY <1>1 DEF Inv, TypeOK, Consistent
<1> QED BY <1>1, <1>2, ResumedSound

\* While the process runs, its instrumentation may change if no thread outside
\* hit depends on it.
LEMMA RunningSound ==
  ASSUME Inv, phase = "loop", mem' \in Memory, seg' \in Segment, Consistent(mem, seg)',
         fails' \in 0..MaxFails, UNCHANGED <<frames, run, phase, unstable, hit, astray, signals>>,
         \A u \in Alive \ hit : frames[u][1][1] \notin Artificial /\ run[u] # "trap"
  PROVE  Inv'
<1>1. TypeOK' /\ Phases'
  BY DEF Inv, TypeOK, Phases
<1>2. ASSUME NEW t \in Threads PROVE Sound(t)'
  <2>1. Sound(t) /\ (t \in Alive' <=> t \in Alive)
    BY DEF Inv, Alive
  <2> QED BY <2>1, NaturalThread
<1> QED BY <1>1, <1>2 DEF Inv

\* The library is unloaded: nobody is in it, nor returns to it.
LEMMA UnloadSound ==
  ASSUME Inv, NEW t \in Threads, NEW r \in Removals, Unload(t, r)
  PROVE  Inv' /\ (r = Complete /\ Tidy(mem, seg) => Tidy(mem', seg')) /\ mem'.noexec = mem.noexec
<1> DEFINE v == [m |-> mem, s |-> seg]
           w == tracepoints_gone(v, r)
           m == [w.m EXCEPT !.here = FALSE, !.text = FreshText.text, !.left = {}]
           s == [NoTracepoints EXCEPT !.jumps = w.s.jumps]
<1>1. /\ mem \in Memory /\ seg \in Segment /\ TypeOK /\ phase = "loop" /\ mem' = m /\ seg' = s
      /\ UNCHANGED <<frames, run, phase, unstable, hit, astray, signals>>
  BY DEF Unload, Inv, TypeOK
<1>2. ASSUME NEW u \in Alive \ hit PROVE frames[u][1][1] \notin Artificial /\ run[u] # "trap"
  <2>1. u \in Threads /\ Sound(u) /\ Len(frames[u]) \in {1, 2} /\ pc(u) \in {frames[u][1], frames[u][2]}
    BY <1>1, PcPlace DEF Alive, Inv
  <2>2. \A i \in 1..2 : i <= Len(frames[u]) => frames[u][i][1] \in {"nat", "sig"}
    BY DEF Unload
  <2>3. frames[u][1][1] \in {"nat", "sig"} /\ pc(u)[1] \in {"nat", "sig"}
    BY <2>1, <2>2, <1>1, PcPlace
  <2>4. \A j \in seg.jumps : j[1] \in {"site", "ret"}
    BY <1>1 DEF Segment
  <2> QED BY <2>1, <2>3, <2>4 DEF Sound, Artificial
<1>3. /\ w.m \in Memory /\ w.s.jumps = {} /\ w.m.noexec = mem.noexec
      /\ r = Complete /\ Tidy(mem, seg) => \A x \in Sites : w.m.code[x] = "none"
  <2>1. v \in Pairs /\ v.m = mem /\ v.s = seg
    BY <1>1 DEF Pairs
  <2>2. Covered(mem, seg) /\ (seg.tracepoints # {} => seg.trampolines)
    BY <1>1, ConsistentCovered DEF Inv, Consistent
  <2>3. w = [m |-> IF seg.trampolines THEN trampoline_free(v, r.freed) ELSE mem,
             s |-> [seg EXCEPT !.trampolines = FALSE, !.tracepoints = {},
                               !.jumps = seg.jumps \ ({"site", "ret"} \X seg.tracepoints)]]
    BY <2>1 DEF tracepoints_gone, tracepoints_cleanup
  <2> HIDE DEF w, v
  <2>4. w.s.jumps = seg.jumps \ ({"site", "ret"} \X seg.tracepoints)
    BY <1>1, <2>3 DEF Segment
  <2>5. w.s.jumps = {}
    BY <1>1, <2>2, <2>4 DEF Segment, Covered
  <2>6. CASE seg.trampolines
    <3>1. r.freed \in BOOLEAN /\ (r = Complete => r.freed)
      BY DEF Removals, Complete
    <3> QED BY <2>1, <2>3, <2>5, <2>6, <3>1, FreeShape
  <2>7. CASE ~seg.trampolines
    BY <1>1, <2>2, <2>3, <2>5, <2>7 DEF Tidy
  <2> QED BY <2>6, <2>7
<1> HIDE DEF w
<1>4. /\ m \in Memory /\ ~m.here /\ \A x \in Sites : m.text[x] = "orig"
      /\ m.left = {} /\ m.code = w.m.code /\ m.noexec = w.m.noexec
  <2>1. /\ FreshText.text \in [Sites -> {"orig", "jump", "bkpt"}]
        /\ \A x \in Sites : FreshText.text[x] = "orig"
    BY DEF FreshText
  <2> QED BY <1>3, <2>1 DEF Memory
<1>5. s \in Segment /\ ~s.injection /\ s.tracepoints = {} /\ s.jumps = {} /\ ~s.trampolines
  BY <1>3 DEF Segment, NoTracepoints
<1> HIDE DEF m, s
<1>6. mem' \in Memory /\ seg' \in Segment /\ Consistent(mem, seg)'
  BY <1>1, <1>4, <1>5 DEF Consistent
<1>7. fails' \in 0..MaxFails
  <2>1. (r # Complete) \in BOOLEAN
    OBVIOUS
  <2> QED BY <1>1, <2>1, FailsBound DEF Unload
<1>8. Inv'
  BY <1>1, <1>2, <1>6, <1>7, RunningSound
<1>9. r = Complete /\ Tidy(mem, seg) => Tidy(mem', seg')
  BY <1>1, <1>3, <1>4, <1>5 DEF Tidy
<1> QED BY <1>1, <1>3, <1>4, <1>8, <1>9

\* A library is loaded: there was nothing to depend on.
LEMMA LoadSound ==
  ASSUME Inv, NEW t \in Threads, NEW c \in Choices, Load(t, c)
  PROVE  Inv' /\ (~Failing(c) /\ Tidy(mem, seg) => Tidy(mem', seg')) /\ mem'.noexec = mem.noexec
<1> DEFINE m == [mem EXCEPT !.here = TRUE]
           s == [seg EXCEPT !.injection = mem.injected]
           v == [m |-> m, s |-> s]
           w == tracepoints_init(v, c)
<1>1. /\ mem \in Memory /\ seg \in Segment /\ TypeOK /\ Consistent(mem, seg)
      /\ phase = "loop" /\ ~mem.here /\ mem' = w.m /\ seg' = w.s
      /\ UNCHANGED <<frames, run, phase, unstable, hit, astray, signals>>
      /\ fails' \in 0..MaxFails
  <2>1. Failing(c) \in BOOLEAN
    BY DEF Failing
  <2> QED BY <2>1, FailsBound DEF Inv, TypeOK, Load
<1>2. ~seg.injection /\ Bare(mem, seg)
  BY <1>1, NoInjectionBare DEF Consistent
<1>3. ASSUME NEW u \in Alive \ hit PROVE frames[u][1][1] \notin Artificial /\ run[u] # "trap"
  <2>1. u \in Threads /\ Sound(u) /\ frames[u][1] \in Places
    BY <1>1, PcPlace DEF Alive, Inv
  <2>2. frames[u][1][1] \in Artificial => frames[u][1][2] \in Sites
    BY <2>1 DEF Places, Artificial
  <2> QED BY <1>2, <2>1, <2>2 DEF Sound, Bare
<1>4. m \in Memory /\ m.text = mem.text /\ m.code = mem.code /\ m.here /\ m.injected = mem.injected
      /\ m.left = mem.left /\ m.noexec = mem.noexec
  BY <1>1 DEF Memory
<1>5. s \in Segment /\ s.injection = mem.injected /\ s.tracepoints = seg.tracepoints
      /\ s.jumps = seg.jumps /\ s.trampolines = seg.trampolines
  BY <1>1 DEF Segment, Memory
<1> HIDE DEF m, s
<1>6. v \in Pairs /\ v.m = m /\ v.s = s
  BY <1>4, <1>5 DEF Pairs
<1> HIDE DEF v
<1>7. Bare(v.m, v.s) /\ (v.s.injection <=> v.m.here /\ v.m.injected)
  BY <1>2, <1>4, <1>5, <1>6 DEF Bare
<1>8. /\ w \in Pairs /\ Consistent(w.m, w.s) /\ w.m.noexec = mem.noexec
      /\ ~Failing(c) /\ Tidy(mem, seg) => Tidy(w.m, w.s)
  <2>1. Tidy(mem, seg) => Tidy(v.m, v.s)
    BY <1>1, <1>4, <1>5, <1>6 DEF Tidy
  <2> QED BY <1>1, <1>4, <1>6, <1>7, <2>1, InitConsistent DEF SameRest
<1> HIDE DEF w
<1>9. mem' \in Memory /\ seg' \in Segment /\ Consistent(mem, seg)'
  BY <1>1, <1>8 DEF Pairs, Consistent
<1>10. Inv'
  BY <1>1, <1>3, <1>9, RunningSound
<1> QED BY <1>1, <1>8, <1>10

\* One thread goes on alone, in natural code.
LEMMA AloneSound ==
  ASSUME Inv, NEW t \in Threads, phase = "loop", run[t] = "run",
         mem' \in Memory, seg' \in Segment, Consistent(mem, seg)',
         run' = [u \in Threads |-> IF u = t THEN "run" ELSE "gone"],
         TypeOK', frames'[t][1] = Nat0 \/ (frames' = frames /\ hit' = hit /\ seg' = seg),
         \A u \in Threads \ {t} : frames'[u] = frames[u] /\ (u \in hit' <=> u \in hit),
         Len(frames'[t]) = 1 \/ frames'[t] = frames[t], t \in hit' => t \in hit,
         UNCHANGED <<phase, unstable, astray>>
  PROVE  Inv'
<1>1. Phases'
  BY DEF Phases
<1>2. /\ run'[t] = "run" /\ \A u \in Threads \ {t} : run'[u] = "gone" /\ Sound(u)
      /\ Sound(t) /\ TypeOK
  BY DEF Inv
<1>3. ASSUME NEW u \in Threads \ {t} PROVE Sound(u)'
  BY <1>2 DEF Sound, Alive
<1>4. Sound(t)'
  <2>1. CASE frames' = frames /\ hit' = hit /\ seg' = seg
    BY <1>2, <2>1 DEF Sound, Alive
  <2>2. CASE frames'[t][1] = Nat0
    BY <1>2, <2>2 DEF Sound, Alive, Nat0, Artificial
  <2> QED BY <2>1, <2>2
<1> QED BY <1>1, <1>3, <1>4 DEF Inv

\* tracepoints_fork copies every jump: all belong to tracepoints.
LEMMA ForkSame ==
  ASSUME NEW m \in Memory, NEW s \in Segment, Consistent(m, s)
  PROVE  tracepoints_fork(s) = s
<1>1. \A j \in s.jumps : j[2] \in s.tracepoints
  BY DEF Consistent, Segment
<1>2. {j \in s.jumps : j[2] \in s.tracepoints} = s.jumps
  BY <1>1
<1> QED BY <1>2 DEF tracepoints_fork, Segment

\* The child of a fork has its parent's memory and the thread that forked.
LEMMA ForkSound == ASSUME Inv, NEW t \in Threads, Fork(t) PROVE Inv'
<1>1. /\ mem \in Memory /\ seg \in Segment /\ TypeOK /\ Consistent(mem, seg)
      /\ phase = "loop" /\ run[t] = "run"
      /\ run' = [u \in Threads |-> IF u = t THEN "run" ELSE "gone"]
      /\ UNCHANGED <<mem, frames, phase, unstable, hit, astray, signals, fails>>
      /\ seg' = tracepoints_fork(seg)
  BY DEF Inv, TypeOK, Fork
<1>2. seg' = seg
  BY <1>1, ForkSame
<1>3. run' \in [Threads -> {"run", "trap", "segv", "stop", "dead", "gone"}]
  BY <1>1
<1>4. TypeOK' /\ Consistent(mem, seg)'
  BY <1>1, <1>2, <1>3 DEF TypeOK, Consistent
<1> QED BY <1>1, <1>2, <1>4, AloneSound

\* thread_exec: a new program, the segment initialised anew.
LEMMA ExecSound ==
  ASSUME Inv, NEW t \in Threads, NEW c \in Choices, Exec(t, c)
  PROVE  Inv' /\ Tidy(mem', seg') /\ ~mem'.noexec
<1> DEFINE old == tracepoints_reset([m |-> FreshText, s |-> seg])
           n == [FreshText EXCEPT !.injected = seg.injection]
           s == [NoTracepoints EXCEPT !.injection = seg.injection, !.jumps = old.s.jumps]
           new == [old EXCEPT !.m.injected = seg.injection, !.s = s]
           w == tracepoints_init(new, c)
<1>1. /\ mem \in Memory /\ seg \in Segment /\ TypeOK /\ Consistent(mem, seg)
      /\ phase = "loop" /\ run[t] = "run"
      /\ run' = [u \in Threads |-> IF u = t THEN "run" ELSE "gone"]
      /\ UNCHANGED <<phase, unstable, astray, signals, fails>>
  BY DEF Inv, TypeOK, Exec
<1>2. mem' = w.m /\ seg' = w.s
  BY DEF Exec
<1>3. frames' = [frames EXCEPT ![t] = <<Nat0>>] /\ hit' = hit \ {t}
  BY DEF Exec
<1>4. old.m = FreshText /\ old = [m |-> old.m, s |-> old.s] /\ old.s.jumps = {}
  <2>1. old = [m |-> FreshText,
               s |-> [seg EXCEPT !.trampolines = FALSE, !.tracepoints = {},
                                 !.jumps = seg.jumps \ ({"site", "ret"} \X seg.tracepoints)]]
    BY DEF tracepoints_reset, tracepoints_cleanup
  <2> HIDE DEF old
  <2>2. old.s.jumps = seg.jumps \ ({"site", "ret"} \X seg.tracepoints)
    BY <1>1, <2>1 DEF Segment
  <2>3. Covered(mem, seg)
    BY <1>1, ConsistentCovered
  <2>4. old.s.jumps = {}
    BY <1>1, <2>2, <2>3 DEF Segment, Covered
  <2> QED BY <2>1, <2>4
<1> HIDE DEF old
<1>5. FreshText \in Memory /\ FreshText.here /\ FreshText.left = {} /\ ~FreshText.noexec
      /\ \A x \in Sites : FreshText.text[x] = "orig" /\ FreshText.code[x] = "none"
  BY DEF FreshText, Memory
<1>6. seg.injection \in BOOLEAN
  BY <1>1 DEF Segment
<1>7. /\ n \in Memory /\ n.here /\ n.injected = seg.injection /\ n.left = {} /\ ~n.noexec
      /\ \A x \in Sites : n.text[x] = "orig" /\ n.code[x] = "none"
  BY <1>5, <1>6 DEF Memory
<1>8. s \in Segment /\ s.injection = seg.injection /\ s.tracepoints = {} /\ s.jumps = {}
      /\ ~s.trampolines
  BY <1>4, <1>6 DEF Segment, NoTracepoints
<1> HIDE DEF s
<1>9. new = [m |-> n, s |-> s]
  <2> DEFINE r == old.s
             o == [old EXCEPT !.m.injected = seg.injection]
  <2>1. old = [m |-> FreshText, s |-> r]
    BY <1>4
  <2> HIDE DEF r
  <2>2. o = [m |-> n, s |-> r]
    BY <1>5, <2>1 DEF Memory
  <2>3. new = [o EXCEPT !.s = s]
    BY <1>5, <2>1 DEF Memory
  <2> HIDE DEF o, n, new
  <2> QED BY <2>2, <2>3
<1> HIDE DEF n, new
<1>10. new \in Pairs /\ new.m = n /\ new.s = s
  BY <1>7, <1>8, <1>9 DEF Pairs
<1>11. /\ Bare(new.m, new.s) /\ (new.s.injection <=> new.m.here /\ new.m.injected)
       /\ Tidy(new.m, new.s) /\ ~new.m.noexec
  BY <1>7, <1>8, <1>10 DEF Bare, Tidy
<1>12. w \in Pairs /\ Consistent(w.m, w.s) /\ Tidy(w.m, w.s) /\ ~w.m.noexec
  <2>1. ~Failing(c)
    BY DEF Exec
  <2> QED BY <1>10, <1>11, <2>1, InitConsistent DEF SameRest
<1> HIDE DEF w
<1>13. mem' \in Memory /\ seg' \in Segment /\ Consistent(mem, seg)'
  BY <1>2, <1>12 DEF Pairs, Consistent
<1>14. run' \in [Threads -> {"run", "trap", "segv", "stop", "dead", "gone"}]
  BY <1>1
<1>15. /\ frames' \in [Threads -> Seq(Places)] /\ \A u \in Threads \ {t} : frames'[u] = frames[u]
       /\ Len(frames'[t]) = 1 /\ frames'[t][1] = Nat0
  <2>1. Nat0 \in Places
    BY DEF Nat0, Places
  <2>2. <<Nat0>> \in Seq(Places) /\ Len(<<Nat0>>) = 1 /\ <<Nat0>>[1] = Nat0
    BY <2>1
  <2> QED BY <1>1, <1>3, <2>2 DEF TypeOK
<1>16. TypeOK'
  <2>1. \A u \in Threads : Len(frames'[u]) \in 1..2
    BY <1>1, <1>15, FramesType
  <2> QED BY <1>1, <1>3, <1>13, <1>14, <1>15, <2>1 DEF TypeOK
<1>17. Inv'
  BY <1>1, <1>3, <1>13, <1>15, <1>16, AloneSound
<1> QED BY <1>2, <1>12, <1>17

\* The invariant holds in a process that was not touched yet.
LEMMA InitInv == Init => Inv
<1> SUFFICES ASSUME Init PROVE Inv
  OBVIOUS
<1>1. /\ FreshText \in Memory /\ FreshText.here /\ ~FreshText.injected
      /\ \A x \in Sites : FreshText.text[x] = "orig" /\ FreshText.code[x] = "none"
  BY DEF FreshText, Memory
<1>2. NoTracepoints \in Segment /\ Bare(FreshText, NoTracepoints) /\ ~NoTracepoints.injection
  BY <1>1 DEF NoTracepoints, Segment, Bare
<1>3. mem \in Memory /\ seg \in Segment /\ Consistent(mem, seg)
  BY <1>1, <1>2 DEF Init, Consistent, Bare
<1>4. Nat0 \in Places
  BY DEF Nat0, Places
<1>5. ASSUME NEW t \in Threads
      PROVE  /\ frames[t] = <<Nat0>> /\ frames[t] \in Seq(Places) /\ Len(frames[t]) = 1
             /\ frames[t][1] = Nat0 /\ run[t] = "run"
  BY <1>4 DEF Init
<1>6. frames \in [Threads -> Seq(Places)] /\ \A t \in Threads : Len(frames[t]) \in 1..2
  <2>1. 1 \in 1..2
    OBVIOUS
  <2> QED BY <1>5, <2>1 DEF Init
<1>7. run \in [Threads -> {"run", "trap", "segv", "stop", "dead", "gone"}]
  BY DEF Init
<1>8. signals \in 0..MaxSignals /\ fails \in 0..MaxFails
  BY BoundsAssumption DEF Init
<1>9. TypeOK
  BY <1>3, <1>6, <1>7, <1>8 DEF TypeOK, Init
<1>10. \A t \in Threads : Sound(t)
  BY <1>5 DEF Sound, Nat0, Artificial
<1>11. Phases
  BY DEF Init, Phases
<1> QED BY <1>3, <1>9, <1>10, <1>11 DEF Inv

\* Every step keeps the invariant.
LEMMA NextInv == Inv /\ [Next]_vars => Inv'
<1> SUFFICES ASSUME Inv, [Next]_vars PROVE Inv'
  OBVIOUS
<1>1. CASE UNCHANGED vars
  <2>1. TypeOK' /\ Consistent(mem, seg)' /\ Phases'
    BY <1>1 DEF Inv, vars, TypeOK, Consistent, Phases, Alive
  <2>2. \A t \in Threads : Sound(t)'
    BY <1>1, SameThread DEF Inv, vars
  <2> QED BY <2>1, <2>2 DEF Inv
<1>2. CASE Server
  BY <1>2, StopStabilizeSound, StabilizeSound, StabilizeDoneSound, AttachSound, DetachSound,
     ProcessDetachSound, ProcessContinueSound, MainTrapSound, ThreadStopSound, StabilizeWaitSound
     DEF Server
<1>3. ASSUME NEW t \in Threads, Program(t) PROVE Inv'
  BY <1>3, StepSound, InterruptSound, SigReturnSound, UnloadSound, ForkSound, LoadSound, ExecSound
     DEF Program
<1> QED BY <1>1, <1>2, <1>3 DEF Next

------------------------------------------------------------------------------
(* Failures that nobody looks at                                           *)

\* As long as no write and no call in the process has failed, nothing is left
\* behind, only process_stabilize protects natural code, and no thread has gone
\* astray.
Flawless ==
    fails = 0 => /\ Tidy(mem, seg) /\ astray = {}
                 /\ mem.noexec => phase = "stabilizing"

\* Steps that change neither memory nor tables.
LEMMA SameFlawless ==
  ASSUME Flawless, UNCHANGED <<mem, seg, astray, fails>>,
         phase' = phase \/ phase # "stabilizing"
  PROVE  Flawless'
BY DEF Flawless, Tidy

\* Executing an instruction: what leads astray was left by a failure.
LEMMA StepFlawless == ASSUME Inv, Flawless, NEW t \in Threads, Step(t) PROVE Flawless'
<1>1. TypeOK /\ pc(t) \in Places /\ UNCHANGED <<mem, seg, phase, fails>>
  BY PcPlace DEF Inv, Step
<1>2. CASE astray' = astray
  BY <1>1, <1>2, SameFlawless
<1>3. CASE astray' # astray
  <2>1. PICK n \in After(pc(t)) : n[1] = "lost"
    BY <1>3 DEF Step
  <2>2. pc(t)[2] \in mem.left \/ (mem.noexec /\ phase # "stabilizing")
    BY <1>1, <2>1, AfterShape DEF Nat0
  <2>3. fails # 0
    BY <2>2 DEF Flawless, Tidy
  <2> QED BY <1>1, <2>3 DEF Flawless
<1> QED BY <1>2, <1>3

\* The protection is only kept where it cannot be reverted.
LEMMA ProtectFlawless ==
  ASSUME Inv, Flawless, NEW done \in BOOLEAN, process_stabilize(done) \/ StabilizeDone(done)
  PROVE  Flawless'
<1>1. TypeOK /\ Consistent(mem, seg) /\ seg' = seg /\ astray' = astray /\ (~done) \in BOOLEAN
  BY DEF Inv, process_stabilize, StabilizeDone
<1>2. CASE process_stabilize(done) /\ process_find_unstable = {}
  BY <1>2, SameFlawless DEF process_stabilize
<1>3. CASE process_stabilize(done) /\ process_find_unstable # {}
  <2>1. /\ phase' = "stabilizing" /\ Fail(~done)
        /\ mem' = [mem EXCEPT !.noexec = mem.noexec \/ done] /\ (mem.noexec \/ done) \in BOOLEAN
    BY <1>3 DEF process_stabilize
  <2>2. mem'.code = mem.code /\ mem'.left = mem.left
    BY <1>1, <2>1, ProtectConsistent
  <2>3. fails' = 0 => fails = 0
    BY <1>1, <2>1, FailsBound
  <2> QED BY <1>1, <2>1, <2>2, <2>3 DEF Flawless, Tidy
<1>4. CASE StabilizeDone(done)
  <2>1. /\ Fail(~done) /\ mem' = [mem EXCEPT !.noexec = mem.noexec /\ ~done]
        /\ (mem.noexec /\ ~done) \in BOOLEAN
    BY <1>4 DEF StabilizeDone
  <2>2. mem'.code = mem.code /\ mem'.left = mem.left /\ (done => ~mem'.noexec)
    BY <1>1, <2>1, ProtectConsistent
  <2>3. fails' = 0 => fails = 0 /\ done
    BY <1>1, <2>1, FailsBound
  <2> QED BY <1>1, <2>2, <2>3 DEF Flawless, Tidy
<1> QED BY <1>2, <1>3, <1>4

\* Installing and removing, if nothing fails, leaves nothing behind.
LEMMA ChangeFlawless ==
  ASSUME Inv, Flawless, NEW failing \in BOOLEAN, Fail(failing), phase \in {"loop", "stopped"},
         ~failing /\ Tidy(mem, seg) => Tidy(mem', seg'), mem'.noexec = mem.noexec, astray' = astray
  PROVE  Flawless'
<1>1. fails' = 0 => fails = 0 /\ ~failing
  BY FailsBound DEF Inv
<1>2. Tidy(mem', seg') => Tidy(mem, seg)'
  BY DEF Tidy
<1> QED BY <1>1, <1>2 DEF Flawless

\* Steps of the server keep Flawless.
LEMMA ServerFlawless == ASSUME Inv, Flawless, Server PROVE Flawless'
<1>1. ASSUME process_stop_stabilize \/ process_continue
             \/ \E t \in Threads : Trap(t) \/ thread_stop(t) \/ StabilizeWait(t)
      PROVE  Flawless'
  BY <1>1, SameFlawless DEF process_stop_stabilize, process_continue, Trap, thread_stop, StabilizeWait
<1>2. ASSUME NEW c \in Choices, segment_attach_injectable(c) PROVE Flawless'
  <2>1. /\ Failing(c) \in BOOLEAN /\ Fail(Failing(c)) /\ phase \in {"loop", "stopped"}
        /\ astray' = astray
    BY <1>2 DEF Failing, segment_attach_injectable
  <2> QED BY <1>2, <2>1, AttachSound, ChangeFlawless
<1>3. ASSUME NEW r \in Removals, segment_detach_injectable(r) \/ process_detach(r) PROVE Flawless'
  <2>1. /\ (r # Complete) \in BOOLEAN /\ Fail(r # Complete) /\ phase \in {"loop", "stopped"}
        /\ astray' = astray
    BY <1>3 DEF segment_detach_injectable, process_detach
  <2>2. /\ ~(r # Complete) /\ Tidy(mem, seg) => Tidy(mem', seg')
        /\ mem'.noexec = mem.noexec
    BY <1>3, DetachSound, ProcessDetachSound
  <2> QED BY <2>1, <2>2, ChangeFlawless
<1> QED BY <1>1, <1>2, <1>3, ProtectFlawless DEF Server

\* Steps of the program keep Flawless.
LEMMA ProgramFlawless == ASSUME Inv, Flawless, NEW t \in Threads, Program(t) PROVE Flawless'
<1>1. CASE Interrupt(t) \/ SigReturn(t)
  BY <1>1, SameFlawless DEF Interrupt, SigReturn
<1>2. CASE Fork(t)
  <2>1. mem \in Memory /\ seg \in Segment /\ Consistent(mem, seg)
    BY DEF Inv, TypeOK
  <2>2. seg' = seg
    BY <1>2, <2>1, ForkSame DEF Fork
  <2> QED BY <1>2, <2>2, SameFlawless DEF Fork
<1>3. ASSUME NEW r \in Removals, Unload(t, r) PROVE Flawless'
  <2>1. /\ (r # Complete) \in BOOLEAN /\ Fail(r # Complete) /\ phase \in {"loop", "stopped"}
        /\ astray' = astray
    BY <1>3 DEF Unload
  <2> QED BY <1>3, <2>1, UnloadSound, ChangeFlawless
<1>4. ASSUME NEW c \in Choices, Load(t, c) PROVE Flawless'
  <2>1. /\ Failing(c) \in BOOLEAN /\ Fail(Failing(c)) /\ phase \in {"loop", "stopped"}
        /\ astray' = astray
    BY <1>4 DEF Failing, Load
  <2> QED BY <1>4, <2>1, LoadSound, ChangeFlawless
<1>5. ASSUME NEW c \in Choices, Exec(t, c) PROVE Flawless'
  <2>1. Tidy(mem', seg') /\ ~mem'.noexec
    BY <1>5, ExecSound
  <2>2. astray' = astray /\ fails' = fails
    BY <1>5 DEF Exec
  <2> QED BY <2>1, <2>2 DEF Flawless, Tidy
<1> QED BY <1>1, <1>2, <1>3, <1>4, <1>5, StepFlawless DEF Program

\* A failure comes before everything that leads a thread astray.
LEMMA FlawlessInv == Inv /\ Flawless /\ [Next]_vars => Flawless'
<1> SUFFICES ASSUME Inv, Flawless, [Next]_vars PROVE Flawless'
  OBVIOUS
<1>1. CASE UNCHANGED vars
  BY <1>1, SameFlawless DEF vars
<1> QED BY <1>1, ServerFlawless, ProgramFlawless DEF Next

\* Nothing has failed in a process that was not touched yet.
LEMMA InitFlawless == Init => Flawless
BY DEF Init, Flawless, Tidy, FreshText, NoTracepoints

\* The instrumentation kills no thread, except one that a signal interrupted in
\* artificial code or that met what a failing write or call left behind, and
\* without a failure only the former: for any number of threads, tracepoints,
\* signals and failures, of the installation, the removal and the protection.
THEOREM NoHarm == Spec => []Unharmed
<1>1. Inv /\ Flawless => Unharmed
  BY DEF Inv, Flawless, Unharmed, Sound
<1> QED BY InitInv, NextInv, InitFlawless, FlawlessInv, <1>1, PTL DEF Spec

------------------------------------------------------------------------------
(* The assertion at the end of process_stabilize                           *)

\* A thread whose breakpoint was deferred at the end of its trampoline.
AtFarReturn(t) == pc(t) \in seg.jumps /\ pc(t)[1] = "ret"

\* A thread that was stopped is stable, or was stopped before a return jump out
\* of range; a failed assertion leaves every thread where it is.
Deferred ==
    /\ phase = "stabilizing" =>
         \A t \in Alive : run[t] = "stop" => thread_is_stable(t) \/ AtFarReturn(t)
    /\ phase = "bug" => /\ \A t \in Alive : run[t] = "stop"
                        /\ \E t \in Alive : AtFarReturn(t)

\* What the assertion of process_stabilize comes to: it fails only on account of
\* a return that needs a breakpoint, which it does where jumps do not reach.
AssertionFailsFar == phase = "bug" => FarReturns /\ \E t \in Threads : AtFarReturn(t)

\* Where a thread stands decides whether it is stable.
LEMMA PlaceStable ==
  ASSUME NEW t \in Threads, seg' = seg, frames'[t] = frames[t],
         thread_is_stable(t) \/ AtFarReturn(t)
  PROVE  (thread_is_stable(t) \/ AtFarReturn(t))'
BY DEF thread_is_stable, AtFarReturn, address_is_artificial, address_is_injection,
       segment_get_by_trampoline, pc

\* A step of the program stops no thread.
LEMMA ProgramDeferred ==
  ASSUME Inv, Deferred, NEW t \in Threads, Program(t) PROVE Deferred'
<1>1. run[t] = "run" /\ t \in Alive /\ phase # "bug"
  <2>1. run[t] = "run" /\ t \in Alive
    BY DEF Program, Step, Interrupt, SigReturn, Unload, Fork, Load, Exec, Alive
  <2> QED BY <2>1 DEF Deferred
<1>2. CASE phase # "stabilizing"
  <2>1. phase' = phase
    BY DEF Program, Step, Interrupt, SigReturn, Unload, Fork, Load, Exec
  <2> QED BY <1>1, <1>2, <2>1 DEF Deferred
<1>3. CASE phase = "stabilizing"
  <2>1. Step(t) \/ Interrupt(t) \/ SigReturn(t)
    BY <1>3 DEF Program, Unload, Fork, Load, Exec
  <2>2. /\ phase' = phase /\ seg' = seg /\ run'[t] # "stop"
        /\ \A u \in Threads \ {t} : frames'[u] = frames[u] /\ run'[u] = run[u]
    <3>1. run \in [Threads -> {"run", "trap", "segv", "stop", "dead", "gone"}]
          /\ frames \in [Threads -> Seq(Places)]
      BY DEF Inv, TypeOK
    <3>2. CASE Step(t)
      BY <1>1, <3>1, <3>2 DEF Step, Goto
    <3>3. CASE Interrupt(t) \/ SigReturn(t)
      BY <1>1, <3>1, <3>3 DEF Interrupt, SigReturn
    <3> QED BY <2>1, <3>2, <3>3
  <2>3. ASSUME NEW u \in Alive', run'[u] = "stop"
        PROVE  (thread_is_stable(u) \/ AtFarReturn(u))'
    <3>1. u \in Threads /\ u # t
      BY <2>2, <2>3 DEF Alive
    <3>2. u \in Alive /\ run[u] = "stop"
      BY <2>2, <2>3, <3>1 DEF Alive
    <3>3. thread_is_stable(u) \/ AtFarReturn(u)
      BY <1>3, <3>2 DEF Deferred
    <3> QED BY <2>2, <3>1, <3>3, PlaceStable
  <2> QED BY <1>3, <2>2, <2>3 DEF Deferred
<1> QED BY <1>2, <1>3

\* process_stabilize stops a thread in natural code or at a breakpoint.
LEMMA WaitDeferred ==
  ASSUME Inv, Deferred, NEW t \in Threads, StabilizeWait(t) PROVE Deferred'
<1>1. /\ TypeOK /\ Sound(t) /\ phase = "stabilizing" /\ phase' = phase /\ seg' = seg
      /\ pc(t) \in Places /\ run[t] \in {"trap", "segv"}
  BY PcPlace DEF Inv, StabilizeWait
<1>2. frames' = frames /\ \A u \in Threads \ {t} : run'[u] = run[u]
  BY <1>1 DEF StabilizeWait, thread_trap, TypeOK
<1>3. run'[t] = "stop" => pc(t) \in seg.jumps \/ segment_check_address_is_code(pc(t))
  BY <1>1 DEF StabilizeWait, thread_trap, TypeOK
<1>4. pc(t) \in seg.jumps \/ segment_check_address_is_code(pc(t)) =>
         thread_is_stable(t) \/ AtFarReturn(t)
  <2>1. pc(t) \in seg.jumps => pc(t)[1] \in {"site", "ret"}
    BY <1>1 DEF TypeOK, Segment
  <2> QED BY <2>1 DEF thread_is_stable, AtFarReturn, address_is_artificial, address_is_injection,
                      segment_get_by_trampoline, segment_check_address_is_code
<1>5. ASSUME NEW u \in Alive', run'[u] = "stop"
      PROVE  (thread_is_stable(u) \/ AtFarReturn(u))'
  <2>1. u \in Threads /\ (u # t => u \in Alive /\ run[u] = "stop")
    BY <1>2, <1>5 DEF Alive
  <2>2. thread_is_stable(u) \/ AtFarReturn(u)
    BY <1>1, <1>3, <1>4, <1>5, <2>1 DEF Deferred
  <2> QED BY <1>1, <1>2, <2>1, <2>2, PlaceStable
<1> QED BY <1>1, <1>5 DEF Deferred

\* Threads that are continued are unstable ones; the others stay where they are.
LEMMA StabilizeDeferred ==
  ASSUME Inv, NEW protect \in BOOLEAN, process_stabilize(protect) PROVE Deferred'
<1>1. CASE process_find_unstable = {}
  BY <1>1 DEF process_stabilize, Deferred
<1>2. CASE process_find_unstable # {}
  <2>1. /\ phase' = "stabilizing" /\ seg' = seg /\ frames' = frames
        /\ run' = [t \in Threads |-> IF t \in process_find_unstable THEN "run" ELSE run[t]]
    BY <1>2 DEF process_stabilize
  <2>2. ASSUME NEW u \in Alive', run'[u] = "stop"
        PROVE  (thread_is_stable(u) \/ AtFarReturn(u))'
    <3>1. u \in Threads /\ u \in Alive /\ u \notin process_find_unstable
      BY <2>1, <2>2 DEF Alive
    <3>2. thread_is_stable(u)
      BY <3>1 DEF process_find_unstable
    <3> QED BY <2>1, <3>1, <3>2, PlaceStable
  <2> QED BY <2>1, <2>2 DEF Deferred
<1> QED BY <1>1, <1>2

\* The assertion fails when a thread is not stable: one at a far return.
LEMMA DoneDeferred ==
  ASSUME Inv, Deferred, NEW revert \in BOOLEAN, StabilizeDone(revert) PROVE Deferred'
<1>1. /\ phase = "stabilizing" /\ UNCHANGED <<seg, frames, run>>
      /\ phase' = IF process_find_unstable = {} THEN "stopped" ELSE "bug"
  BY DEF StabilizeDone
<1>2. \A t \in Alive : run[t] = "stop"
  BY <1>1 DEF Inv, Phases, StabilizeDone, Alive
<1>3. CASE process_find_unstable = {}
  BY <1>1, <1>3 DEF Deferred
<1>4. CASE process_find_unstable # {}
  <2>1. PICK t \in Alive : ~thread_is_stable(t)
    BY <1>4 DEF process_find_unstable
  <2>2. AtFarReturn(t)
    BY <1>1, <1>2, <2>1 DEF Deferred
  <2>3. t \in Alive' /\ AtFarReturn(t)'
    BY <1>1, <2>1, <2>2 DEF Alive, AtFarReturn, pc
  <2>4. \A u \in Alive' : run'[u] = "stop"
    BY <1>1, <1>2 DEF Alive
  <2> QED BY <1>1, <1>4, <2>3, <2>4 DEF Deferred
<1> QED BY <1>3, <1>4

\* process_stabilize fails its own assertion only where return jumps do not reach:
\* with near returns the assertion holds, for any threads, sites and failures.
THEOREM Assertion == Spec => []AssertionFailsFar
<1>1. Init => Deferred
  BY DEF Init, Deferred
<1>2. Inv /\ Deferred /\ [Next]_vars => Deferred'
  <2> SUFFICES ASSUME Inv, Deferred, [Next]_vars PROVE Deferred'
    OBVIOUS
  <2>1. CASE UNCHANGED vars
    BY <2>1 DEF vars, Deferred, Alive, AtFarReturn, pc, thread_is_stable, address_is_artificial,
                address_is_injection, segment_get_by_trampoline
  <2>2. ASSUME NEW t \in Threads, Trap(t) \/ thread_stop(t) PROVE Deferred'
    BY <2>2 DEF Trap, thread_stop, Deferred
  <2>3. CASE \/ process_stop_stabilize \/ process_continue
             \/ \E r \in Removals : segment_detach_injectable(r) \/ process_detach(r)
    BY <2>3 DEF process_stop_stabilize, segment_detach_injectable, process_detach,
                process_continue, Deferred
  <2>4. ASSUME NEW c \in Choices, segment_attach_injectable(c) PROVE Deferred'
    BY <2>4 DEF segment_attach_injectable, Deferred
  <2>5. CASE Server
    BY <2>2, <2>3, <2>4, <2>5, WaitDeferred, StabilizeDeferred, DoneDeferred DEF Server
  <2> QED BY <2>1, <2>5, ProgramDeferred DEF Next
<1>3. Inv /\ Deferred => AssertionFailsFar
  BY DEF Inv, Consistent, Deferred, AssertionFailsFar, AtFarReturn, Alive
<1> QED BY InitInv, NextInv, <1>1, <1>2, <1>3, PTL DEF Spec

\* When the server has left the process, no instruction of a site is a jump or a
\* breakpoint that it installed and did not remove - except, if writes failed,
\* where they did.  Without a failure the process is as it was: no jump, no
\* trampoline and no protection is left, whatever was loaded, forked or deferred.
Restored ==
    phase = "left" =>
       /\ \A s \in Sites : mem.text[s] = "orig"
       /\ fails = 0 => /\ mem.left = {} /\ ~mem.noexec
                       /\ \A s \in Sites : mem.code[s] = "none"

\* process_detach restores the program, as far as its writes succeed, for any
\* threads and sites.
THEOREM Restores == Spec => []Restored
<1>1. Inv /\ Flawless => Restored
  BY DEF Inv, Phases, Consistent, Flawless, Tidy, Restored
<1> QED BY InitInv, NextInv, InitFlawless, FlawlessInv, <1>1, PTL DEF Spec
==============================================================================
