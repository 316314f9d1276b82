---------------------------- MODULE BlockRegions ----------------------------
(***************************************************************************)
(* block_regions (include/ityr/ori/block_regions.hpp): the sorted lists of *)
(* byte ranges [b, e) in which a cache block records what is valid, dirty  *)
(* or to be fetched, as sequences of ranges and the functions on them.     *)
(* ByteCache runs them.                                                    *)
(***************************************************************************)
EXTENDS Integers, SequencesExt

Region(b, e) == [b |-> b, e |-> e]

\* get_union of two ranges that overlap or touch.
GetUnion(r, s) == Region(Min({r.b, s.b}), Max({r.e, s.e}))

\* Mutant: the merged range absorbs no later range.
AddRegionOnce(regs, br) ==
  LET i == Min({j \in DOMAIN regs : regs[j].e >= br.b} \cup {Len(regs) + 1}) IN
  IF i > Len(regs) \/ br.e < regs[Min({i, Len(regs)})].b
  THEN InsertAt(regs, i, br)
  ELSE [regs EXCEPT ![i] = GetUnion(@, br)]

\* add: skip the ranges that end before br; insert br there if it touches
\* nothing, otherwise merge it and absorb the ranges the union then reaches.
AddRegion(regs, br) ==
  LET i    == Min({j \in DOMAIN regs : regs[j].e >= br.b} \cup {Len(regs) + 1})
      rest == SubSeq(regs, i + 1, Len(regs))
      Absorb(acc, r) ==
        IF acc.open /\ acc.cur.e >= r.b
        THEN [acc EXCEPT !.cur = GetUnion(@, r)]
        ELSE [acc EXCEPT !.open = FALSE, !.left = Append(@, r)] IN
  IF i > Len(regs) \/ br.e < regs[Min({i, Len(regs)})].b
  THEN InsertAt(regs, i, br)
  ELSE LET m == FoldLeft(Absorb, [cur |-> GetUnion(regs[i], br), left |-> <<>>, open |-> TRUE], rest)
       IN SubSeq(regs, 1, i - 1) \o <<m.cur>> \o m.left

\* What remove leaves of one range r, in the order of its tests.
RemovePieces(r, br) ==
  CASE br.e <= r.b \/ r.e <= br.b     -> <<r>>
    [] br.b <= r.b /\ r.e <= br.e     -> <<>>
    [] r.b < br.e /\ br.b <= r.b /\ br.e < r.e -> <<Region(br.e, r.e)>>
    [] r.b < br.b /\ br.b < r.e /\ r.e <= br.e -> <<Region(r.b, br.b)>>
    [] OTHER                          -> <<Region(r.b, br.b), Region(br.e, r.e)>>

RemoveRegion(regs, br) ==
  FoldLeft(LAMBDA acc, r : acc \o RemovePieces(r, br), <<>>, regs)

\* include: the loop ends at the first range that begins after br.
Include(regs, br) ==
  \E i \in DOMAIN regs :
    /\ br.e <= regs[i].e
    /\ \A j \in 1..i : regs[j].b <= br.b

\* inverse: what of br the list does not cover, br.begin moving upwards.
InverseRegions(regs, br) ==
  LET Step(acc, r) ==
        IF acc.b >= br.e THEN acc
        ELSE [b |-> Max({acc.b, r.e}),
              out |-> IF acc.b < r.b THEN Append(acc.out, Region(acc.b, Min({r.b, br.e})))
                      ELSE acc.out]
      m == FoldLeft(Step, [b |-> br.b, out |-> <<>>], regs) IN
  IF m.b < br.e THEN Append(m.out, Region(m.b, br.e)) ELSE m.out

\* The bytes of a range and of a list.
BytesOf(r) == r.b .. (r.e - 1)
BytesIn(regs) == UNION {BytesOf(regs[i]) : i \in DOMAIN regs}

\* What all loops over a list rely on: the ranges are not empty, sorted, and no
\* two of them touch.
IsCanonical(regs) ==
  /\ \A i \in DOMAIN regs : regs[i].b < regs[i].e
  /\ \A i \in 1..(Len(regs) - 1) : regs[i].e < regs[i + 1].b
=============================================================================
