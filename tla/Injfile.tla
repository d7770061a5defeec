------------------------------- MODULE Injfile -------------------------------
(***************************************************************************)
(* Injectable files (injectable/injfile.c), the description of an address  *)
(* by the nearest symbol (util/human.c) and the linking of an injection    *)
(* with the ones that are there already (injection/injection.c).           *)
(*                                                                         *)
(* A list of the file is a sequence of entries that the entry End follows, *)
(* or NULL when the file has no such list.  A symbol has a name and an     *)
(* offset, a line entry an address, a file and a line.                     *)
(***************************************************************************)
EXTENDS Integers, Sequences

NoList == <<[name |-> "null", offset |-> -1]>>
Empty == ""

\* The terminator, as the iterators of injfile.h see it.
End == [name |-> Empty, offset |-> 0]

\* injfile_iter_symbols, injfile_iter_tpoints: the entries called back.
injfile_iter_symbols(list) == IF list = NoList THEN <<>> ELSE list

\* injfile_symbol_iter_first and _next, injfile_tpoint_iter_first and _next:
\* the first entry is not compared with the terminator.
injfile_symbol_iter(list) ==
    IF list = NoList THEN <<>> ELSE IF list = <<>> THEN <<End>> ELSE list

\* injfile_get_symbol: the offset of the first symbol with the name, or -1.
injfile_get_symbol(list, name) ==
    LET symbols == injfile_iter_symbols(list)
        places == {n \in 1..Len(symbols) : symbols[n].name = name}
    IN  IF places = {} THEN -1
        ELSE symbols[CHOOSE n \in places : \A m \in places : n <= m].offset

NoLine == [file |-> -1, line |-> -1]

\* Mutant: the entry the search stops at is taken.
injfile_addr2line_at(lines, offset) ==
    LET stop == CHOOSE n \in 1..(Len(lines) + 1) :
                    /\ n = Len(lines) + 1 \/ lines[n].addr > offset
                    /\ \A m \in 1..(n - 1) : lines[m].addr <= offset
    IN  IF lines = NoList \/ stop > Len(lines) THEN NoLine
        ELSE [file |-> lines[stop].file, line |-> lines[stop].line]

\* injfile_addr2line: the entry before the first one with a greater address.
injfile_addr2line(lines, offset) ==
    LET stop == CHOOSE n \in 1..(Len(lines) + 1) :
                    /\ n = Len(lines) + 1 \/ lines[n].addr > offset
                    /\ \A m \in 1..(n - 1) : lines[m].addr <= offset
    IN  IF lines = NoList \/ stop = 1 THEN NoLine
        ELSE [file |-> lines[stop - 1].file, line |-> lines[stop - 1].line]

NoSymbol == [type |-> "NONE", offset |-> -1, name |-> Empty]

\* One loop of str_injection_offset: entries at or below the offset that are
\* above the best one so far.
Better(best, type, list, offset) ==
    LET over[n \in 0..Len(list)] ==
            IF n = 0 THEN best
            ELSE LET b == over[n - 1]
                 IN  IF list[n].offset <= offset /\ list[n].offset > b.offset
                     THEN [type |-> type, offset |-> list[n].offset, name |-> list[n].name]
                     ELSE b
    IN  over[Len(list)]

\* str_injection_offset: what an offset of the code is described by.
str_injection_offset(file, offset) ==
    LET adbi == Better(NoSymbol, "ADBI", injfile_symbol_iter(file.adbi), offset)
        exports == Better(adbi, "EXPORT", injfile_symbol_iter(file.exports), offset)
        imports == Better(exports, "IMPORT", injfile_symbol_iter(file.imports), offset)
    IN  Better(imports, "TPOINT", injfile_symbol_iter(file.tpoints), offset)

------------------------------------------------------------------------------
(* Dynamic linking.  An injection is [address, exports, imports, code_size] *)
(* and a process the sequence of its injections, in the order of the tree; *)
(* mem is the memory of the process, in words of 4 bytes.                  *)

\* injection_contains and injection_get_by_address
injection_get_by_address(process, address) ==
    LET S == {n \in 1..Len(process) : /\ address >= process[n].address
                                      /\ address < process[n].address + process[n].code_size}
    IN  IF S = {} THEN 0 ELSE CHOOSE n \in S : \A m \in S : n <= m

injection_relocate_address(injection, offset) ==
    IF offset < 0 THEN 0 ELSE injection.address + offset

injection_get_exported_symbol_address(injection, symbol) ==
    injection_relocate_address(injection, injfile_get_symbol(injection.exports, symbol))

\* injection_find_export: the address in the first injection that exports
\* the symbol, or 0
injection_find_export(process, symbol) ==
    LET Address(n) == injection_get_exported_symbol_address(process[n], symbol)
        S == {n \in 1..Len(process) : Address(n) # 0}
    IN  IF S = {} THEN 0 ELSE Address(CHOOSE n \in S : \A m \in S : n <= m)

\* mem_write of an address_t, by its contract (see Memory): `words' of them,
\* the upper one being 0 for the addresses used here.  Both words are mapped
\* or not; that a server for arm64 cannot write the last word of a mapping
\* alone is left out.
WriteAddress(mem, at, words, addr) ==
    [a \in DOMAIN mem |-> IF a = at THEN addr
                          ELSE IF words = 2 /\ a = at + 1 THEN 0 ELSE mem[a]]

\* Mutant: the address is put at the start of the stub.
injection_dlink_start(mem, process, injection, mode32, words) ==
    LET imports == injfile_symbol_iter(injection.imports)
        link[n \in 0..Len(imports)] ==
            IF n = 0 THEN mem
            ELSE WriteAddress(link[n - 1], injection.address + imports[n].offset, words,
                              injection_find_export(process, imports[n].name))
    IN  [mem |-> link[Len(imports)],
         success |-> \A n \in 1..Len(imports) :
                        injection_find_export(process, imports[n].name) # 0]

\* injection_dlink: the place of the address is behind the one or two
\* instructions of the stub; an address_t has as many words as the build
\* says, whatever the process is.  Imports that fail do not end the loop.
injection_dlink(mem, process, injection, mode32, words) ==
    LET imports == injfile_symbol_iter(injection.imports)
        Export(n) == injection_find_export(process, imports[n].name)
        At(n) == injection_relocate_address(injection, imports[n].offset)
                   + (IF mode32 THEN 1 ELSE 2)
        link[n \in 0..Len(imports)] ==
            IF n = 0 THEN mem
            ELSE IF Export(n) = 0 THEN link[n - 1]
            ELSE WriteAddress(link[n - 1], At(n), words, Export(n))
    IN  [mem |-> link[Len(imports)],
         success |-> \A n \in 1..Len(imports) :
                        /\ Export(n) # 0
                        /\ At(n)..(At(n) + words - 1) \subseteq DOMAIN mem]
==============================================================================
