------------------------------ MODULE Freelist ------------------------------
(***************************************************************************)
(* ityr::common::freelist (include/ityr/common/freelist.hpp): a sorted     *)
(* list of free address ranges, kept as a sequence of [addr, size].  get   *)
(* takes from the first range that is large enough, add gives a range back *)
(* and merges it with its neighbours.                                      *)
(***************************************************************************)
EXTENDS Integers, Sequences, SequencesExt

Entry(addr, size) == [addr |-> addr, size |-> size]

EndOf(e) == e.addr + e.size

\* F(v).  The bound variable makes TLC evaluate v once, where a chain of
\* operators, each using the list it is given many times, would multiply.
Apply(F(_), v) == CHOOSE r \in {F(x) : x \in {v}} : TRUE

\* The result of a get that finds nothing (std::nullopt); fl is unchanged.
NotFound(fl) == [found |-> FALSE, addr |-> 0, fl |-> fl]

\* get(size): first fit; a range that fits exactly is erased, a larger one
\* loses its lower end.
Get(fl, size) ==
  LET fits == {i \in DOMAIN fl : fl[i].size >= size} IN
  IF fits = {} THEN NotFound(fl)
  ELSE LET i == Min(fits) IN
       [found |-> TRUE, addr |-> fl[i].addr,
        fl |-> IF fl[i].size = size THEN RemoveAt(fl, i)
               ELSE [fl EXCEPT ![i] = Entry(@.addr + size, @.size - size)]]

\* add(addr, size): the loop stops at the first range that the new one touches
\* or precedes; a range it extends upwards may then reach the next one.
Add(fl, addr, size) ==
  LET new   == Entry(addr, size)
      stops == {i \in DOMAIN fl : EndOf(new) <= fl[i].addr \/ addr = EndOf(fl[i])}
      i     == Min(stops)
      joins == i < Len(fl) /\ fl[i + 1].addr = EndOf(new) IN
  CASE size = 0 -> fl
    [] size # 0 /\ stops = {} -> Append(fl, new)
    [] size # 0 /\ stops # {} /\ EndOf(new) = fl[i].addr ->
         [fl EXCEPT ![i] = Entry(addr, size + @.size)]
    [] size # 0 /\ stops # {} /\ EndOf(new) < fl[i].addr -> InsertAt(fl, i, new)
    [] OTHER ->
         IF joins
         THEN RemoveAt([fl EXCEPT ![i].size = @ + size + fl[i + 1].size], i + 1)
         ELSE [fl EXCEPT ![i].size = @ + size]

RoundUp(x, alignment) == ((x + alignment - 1) \div alignment) * alignment

\* The aligned piece of the size + alignment bytes at big.addr: both ends that
\* are left over go back to the list.
Cut(big, size, alignment) ==
  LET ret        == RoundUp(big.addr, alignment)
      AddTail(f) == Add(f, ret + size, (big.addr + size + alignment) - (ret + size)) IN
  [found |-> TRUE, addr |-> ret,
   fl |-> Apply(AddTail, Add(big.fl, big.addr, ret - big.addr))]

\* get(size, alignment) once the unaligned first fit is back in the list.
GetLarger(fl, size, alignment) ==
  LET CutFrom(big) == IF big.found THEN Cut(big, size, alignment) ELSE NotFound(fl) IN
  Apply(CutFrom, Get(fl, size + alignment))

\* get(size, alignment): the first fit if it is aligned; otherwise it goes back
\* and size + alignment bytes are taken.
GetAligned(fl, size, alignment) ==
  LET Larger(back) == GetLarger(back, size, alignment)
      From(s) == IF ~s.found \/ s.addr % alignment = 0 THEN s
                 ELSE Apply(Larger, Add(s.fl, s.addr, size)) IN
  Apply(From, Get(fl, size))

-----------------------------------------------------------------------------
Bytes(addr, size) == addr .. (addr + size - 1)

\* The addresses a freelist covers.
FreeBytes(fl) == UNION {Bytes(fl[i].addr, fl[i].size) : i \in DOMAIN fl}

\* Sorted, without empty ranges, and no two neighbours touch: what add's
\* single pass and its early returns rely on.
Coalesced(fl) ==
  /\ \A i \in DOMAIN fl : fl[i].size > 0
  /\ \A i \in 1..(Len(fl) - 1) : EndOf(fl[i]) < fl[i + 1].addr
=============================================================================
