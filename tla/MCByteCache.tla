----------------------------- MODULE MCByteCache -----------------------------
(* ByteCache: a few coarse accesses to every small distribution, and more   *)
(* accesses of single bytes and sub-blocks to some, through every core.     *)
EXTENDS ByteCache

CONSTANTS Sizes, RankCounts, Coarse, Fine

Alloc(k, s, n, g, u, w) ==
  [kind |-> k, size |-> s, n |-> n, seg |-> g, unit |-> u, writes |-> w, core |-> "default"]

Core(k, c) == [c EXCEPT !.core = k]

MCAllocs ==
  {Alloc(k, s, n, BlockSize, BlockSize, Coarse) :
     k \in {"block", "cyclic", "block_adws"}, s \in Sizes, n \in RankCounts}
  \cup {Alloc("cyclic", s, n, 2 * BlockSize, BlockSize, Coarse) : s \in Sizes, n \in RankCounts}
  \cup (IF Fine = 0 THEN {}
        ELSE {Alloc("noncoll", BlockSize, 1, BlockSize, 1, Fine),
              Alloc("noncoll", BlockSize + SubBlockSize, 1, BlockSize, SubBlockSize, Fine),
              Alloc("cyclic", 2 * BlockSize - 1, 2, BlockSize, 1, 1),
              Core("serial", Alloc("serial", BlockSize - 1, 1, BlockSize, 1, Fine))}
             \cup {Core(k, Alloc("noncoll", BlockSize + SubBlockSize, 1, BlockSize, SubBlockSize, 1)) :
                     k \in {"default_copy", "nocache"}}
             \cup {Core(k, Alloc("cyclic", 3 * BlockSize - 1, n, BlockSize, SubBlockSize, 1)) :
                     k \in {"default_copy", "nocache"}, n \in {2, 3}})

\* What malloc_coll makes of a local size s of another rank, for every s that is
\* not too large to reserve as it is: below 2^(IntWidth-1) all goes well; where
\* the int is negative the reservation dies, where it is 0 the mapping; else the
\* home memory is opened and mapped shorter than it is.
ASSUME HomeMemoryBySize ==
  \A s \in {x \in 1..(AddressSpace - BlockSize - 1) : x % BlockSize = 0} :
    LET opened == ToSizeT(ToInt(s))
        rest   == s % (2 ^ IntWidth)
    IN /\ s < 2 ^ (IntWidth - 1) => opened = s /\ InitHomeVm(opened) = "mapped"
       /\ rest >= 2 ^ (IntWidth - 1) => InitHomeVm(opened) = "virtual_mem"
       /\ rest = 0 => InitHomeVm(opened) = "map_to_vm"
       /\ s >= 2 ^ IntWidth /\ rest \in 1..(2 ^ (IntWidth - 1) - 1) =>
            opened = rest /\ opened < s /\ InitHomeVm(opened) = "mapped"
=============================================================================
