------------------------------- MODULE MemLayout -------------------------------
(***************************************************************************)
(* Where the allocators put things: what allocate_by_mmap asks of mmap and *)
(* gives back of it (src_mem/mmap_allocator.cpp), and where a room lies in *)
(* a chamber (src_mem/alloc_only_allocator.cpp).  Addresses and sizes are  *)
(* in bytes.                                                               *)
(***************************************************************************)
EXTENDS Naturals

CONSTANT PageSize \* page_size

ASSUME PageSizeAssumption == PageSize \in Nat \ {0} /\ PageSize % 32 = 0

DefaultAlign == 32  \* default_align_size
ChamberBytes == 32  \* sizeof( alloc_chamber )
BorderBytes  == 24  \* sizeof( room_boader )
InRoomBytes  == 16  \* sizeof( alloc_in_room )

\* The least multiple of a that is not less than n.
RoundUp(n, a) == a * ((n + a - 1) \div a)

-----------------------------------------------------------------------------
(* allocate_by_mmap                                                        *)

\* calc_cur_system_alloc_params: what is needed, and what mmap is asked for so
\* that an aligned block of that size is within it.
MmapAlign(align) == IF align <= PageSize THEN PageSize ELSE align
RealSize(req) == PageSize * ((req + (PageSize - 1)) \div PageSize)
OverfitSize(req, align) == PageSize * ((req + (MmapAlign(align) - 1)) \div PageSize)

\* What is kept of the block that mmap has returned at addr, and how many
\* bytes in front of it and behind it are unmapped.
Trimmed(req, align, addr) ==
  LET a      == MmapAlign(align)
      remain == addr % a
      pre    == IF remain = 0 THEN 0 ELSE a - remain
  IN [at   |-> a * (addr \div a + IF remain = 0 THEN 0 ELSE 1),
      size |-> RealSize(req),
      pre  |-> pre,
      post |-> OverfitSize(req, align) - (pre + RealSize(req))]

-----------------------------------------------------------------------------
(* room_boader                                                             *)

\* calc_init_offset
InitOffset == RoundUp(ChamberBytes, DefaultAlign)

\* calc_addr_of_allocated_memory_based_on_room_boader
TopOf(base, align) == RoundUp(base + BorderBytes + InRoomBytes, align)

\* calc_pointer_of_tail_padding_based_on_room_boarder
TailOf(base, n, align) == TopOf(base, align) + n

\* calc_addr_of_end_of_tail_padding_based_on_room_boader: there is at least
\* one byte of padding.
EndOf(base, n, align) == DefaultAlign * ((TailOf(base, n, align) + DefaultAlign) \div DefaultAlign)
=============================================================================
