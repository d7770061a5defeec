------------------------------- MODULE Payload -------------------------------
(***************************************************************************)
(* Payloads of packets (communication/payload.c).                          *)
(*                                                                         *)
(* A buffer is a sequence of cells.  An element is a header of four cells  *)
(* (type, reserved, size of the name, size of the data), the name with its *)
(* terminator 0, and the data.  A number of 32 bits takes one cell, one of *)
(* 64 bits two.                                                            *)
(*                                                                         *)
(* The size of the data is a uint32_t, and so is its sum with that of the  *)
(* name.  `wide' says whether size_t and pointers have more bits: the      *)
(* server for arm64.                                                       *)
(***************************************************************************)
EXTENDS Integers, Sequences

CONSTANT SizeLimit    \* the number of values of a uint32_t

TERMINATOR == 0
U32 == 1
U64 == 2
STR == 3

Header == 4
NumberSize(type) == CASE type = U32 -> 1 [] type = U64 -> 2

\* The name of an element that is too short for a name, or goes on to the
\* end of the buffer.
Outside == <<-1>>

------------------------------------------------------------------------------
(* Construction                                                             *)

\* payload_create, payload_reset
payload_create == [buf |-> <<>>, allocated |-> 4]

\* payload_append_bytes: the buffer is doubled until the data fit.
payload_append_bytes(pb, data) ==
    LET need == Len(data) + Len(pb.buf)
        allocate[n \in Nat \ {0}] == IF need > n THEN allocate[2 * n] ELSE n
    IN  [buf |-> pb.buf \o data, allocated |-> allocate[pb.allocated]]

payload_add_element(pb, type, name, data) ==
    LET info == <<type, 0, Len(name) + 1, Len(data)>>
    IN  payload_append_bytes(
            payload_append_bytes(payload_append_bytes(pb, info), name \o <<0>>), data)

\* payload_put_u32, _u64, _str: a string has a terminator as well.
payload_put(pb, type, name, val) ==
    payload_add_element(pb, type, name, IF type = STR THEN val \o <<0>> ELSE val)

payload_put_term(pb) == payload_add_element(pb, TERMINATOR, <<>>, <<>>)

------------------------------------------------------------------------------
(* Elements; `at' is the offset of an element, the first one is at 0.       *)

payload_element_get_type(buf, at) == buf[at + 1]
payload_element_name_size(buf, at) == buf[at + 3]
payload_element_data_size(buf, at) == buf[at + 4]

\* A sum of sizes as a uint32_t; it is less than twice the limit.
uint32(sum) == IF sum < SizeLimit THEN sum ELSE sum - SizeLimit

payload_element_get_size(wide, buf, at) ==
    LET sizes == payload_element_name_size(buf, at) + payload_element_data_size(buf, at)
    IN  IF wide THEN Header + uint32(sizes) ELSE uint32(Header + sizes)

\* payload_element_get_name, as strlen and strcmp see it.
payload_element_get_name(buf, at) ==
    LET nulls == {n \in (at + Header + 1)..Len(buf) : buf[n] = 0}
    IN  IF nulls = {} THEN Outside
        ELSE SubSeq(buf, at + Header + 1,
                    (CHOOSE n \in nulls : \A m \in nulls : n <= m) - 1)

payload_element_get_data(buf, at) ==
    LET start == at + Header + payload_element_name_size(buf, at)
    IN  SubSeq(buf, start + 1, start + payload_element_data_size(buf, at))

payload_element_get_next(wide, buf, at) == at + payload_element_get_size(wide, buf, at)

------------------------------------------------------------------------------
(* Checking                                                                 *)

\* The cell of data[data_size - 1].  The index is a uint32_t as well; with
\* pointers of 32 bits the address wraps around and comes to the end of the
\* element, which for a string without data is that of its name.
LastOfData(wide, buf, at) ==
    LET size == payload_element_data_size(buf, at)
    IN  IF ~wide THEN payload_element_get_next(wide, buf, at)
        ELSE at + Header + payload_element_name_size(buf, at)
                + (IF size = 0 THEN SizeLimit ELSE size)

IsNull(buf, cell) ==
    IF cell \notin 1..Len(buf) THEN "outside" ELSE IF buf[cell] = 0 THEN "correct" ELSE "wrong"

Accept(condition) == IF condition THEN "correct" ELSE "wrong"

\* The data of an element of each type.
CheckData(wide, buf, at) ==
    LET type == payload_element_get_type(buf, at)
        size == payload_element_data_size(buf, at)
    IN  CASE type = TERMINATOR -> Accept(size = 0)
          [] type \in {U32, U64} -> Accept(size = NumberSize(type))
          [] type = STR -> IsNull(buf, LastOfData(wide, buf, at))
          [] OTHER -> "wrong"

\* Mutant: the terminator of the name is not looked for.
payload_check_element_noterm(wide, buf, at, size) ==
    IF size < Header \/ size < payload_element_get_size(wide, buf, at)
         \/ payload_element_name_size(buf, at) = 0
    THEN "wrong" ELSE CheckData(wide, buf, at)

\* payload_check_element: `size' cells are left for the element, which is
\* correct or wrong, or read outside of the buffer.
payload_check_element(wide, buf, at, size) ==
    IF size < Header \/ size < payload_element_get_size(wide, buf, at)
         \/ payload_element_name_size(buf, at) = 0
    THEN "wrong"
    ELSE LET end == IsNull(buf, at + Header + payload_element_name_size(buf, at))
         IN  IF end # "correct" THEN end
             ELSE IF Len(payload_element_get_name(buf, at)) + 1
                       # payload_element_name_size(buf, at) THEN "wrong"
             ELSE CheckData(wide, buf, at)

\* payload_check: elements up to a terminator at the end.  What the check
\* comes to, and at which element; it stays for ever at one of size 0.
payload_check(wide, buf) ==
    LET check[at \in 0..Len(buf)] ==
            LET size == Len(buf) - at
                is == payload_check_element(wide, buf, at, size)
                Done(verdict) == [is |-> verdict, at |-> at]
            IN  IF is # "correct" THEN Done(is)
                ELSE IF payload_element_get_type(buf, at) = TERMINATOR
                THEN Done(Accept(size = payload_element_get_size(wide, buf, at)))
                ELSE IF payload_element_get_size(wide, buf, at) = 0 THEN Done("endless")
                ELSE check[payload_element_get_next(wide, buf, at)]
    IN  check[0]

------------------------------------------------------------------------------
(* Reading                                                                  *)

NULL == -1
Beyond == -2

\* payload_find: the first element with the name; Beyond when the search
\* would leave the buffer or never end.
payload_find(wide, buf, name) ==
    LET find[at \in 0..Len(buf)] ==
            IF at + Header > Len(buf) THEN Beyond
            ELSE IF payload_element_get_type(buf, at) = TERMINATOR THEN NULL
            ELSE IF payload_element_get_name(buf, at) = Outside THEN Beyond
            ELSE IF payload_element_get_name(buf, at) = name THEN at
            ELSE IF payload_element_get_next(wide, buf, at) \notin (at + 1)..Len(buf) THEN Beyond
            ELSE find[payload_element_get_next(wide, buf, at)]
    IN  find[0]

\* payload_find_typed
payload_find_typed(wide, buf, name, type) ==
    LET at == payload_find(wide, buf, name)
    IN  IF at >= 0 /\ payload_element_get_type(buf, at) # type THEN NULL ELSE at

\* payload_get_u32, _u64, _str
payload_get(wide, buf, name, type) ==
    LET at == payload_find_typed(wide, buf, name, type)
    IN  IF at < 0 THEN <<>> ELSE payload_element_get_data(buf, at)
==============================================================================
