------------------------------- MODULE SlotLayout -------------------------------
(***************************************************************************)
(* Where gmem_allocate puts what is asked for (src_mem/                    *)
(* mem_gmem_allocator.cpp, mem_small_memory_slot.hpp): the class of slots  *)
(* that a request goes to, the slots of a group of memory, and the memory  *)
(* in a slot.  Addresses and sizes are in bytes; pointers have 8 bytes.    *)
(***************************************************************************)
EXTENDS Integers

MinAlign  == 8   \* min_alignment_size_
GroupHead == 72  \* sizeof( memory_slot_group )
LinkInfo  == 24  \* sizeof( slot_link_info )
DataAt    == 16  \* offset of slot_link_info::data_
NoClass   == 128 \* the number of classes: a big slot is used

-----------------------------------------------------------------------------
(* The classes                                                             *)

\* allocatable_bytes_ of g_memory_slot_group_list_array
Allocatable(i) ==
  IF i < 64 THEN 8 * (i + 1)
  ELSE IF i < 72 THEN 512 + 64 * (i - 63)
  ELSE IF i < 80 THEN 1024 + 128 * (i - 71)
  ELSE IF i < 88 THEN 2048 + 256 * (i - 79)
  ELSE IF i < 96 THEN 4096 + 512 * (i - 87)
  ELSE IF i < 104 THEN 8192 + 1024 * (i - 95)
  ELSE IF i < 112 THEN 16384 + 2048 * (i - 103)
  ELSE IF i < 120 THEN 32768 + 4096 * (i - 111)
  ELSE 65536 + 8192 * (i - 119)

\* next_allocating_buffer_bytes_, at first, and limit_bytes_for_one_memory_slot_group_
InitBytes(i) ==
  IF i < 4 THEN 4096
  ELSE IF i < 63 THEN 4096 * (1 + (i + 1) \div 4)
  ELSE IF i < 72 THEN 65536
  ELSE IF i < 96 THEN 64 * Allocatable(i) + 4096
  ELSE IF i < 104 THEN 528384
  ELSE IF i < 112 THEN 32 * Allocatable(i) + 4096
  ELSE 1052672
LimitBytes(i) == IF i < 64 THEN 1048576 ELSE IF i < 71 THEN 2097152 ELSE 4194304

\* clac_next_expected_buffer_size
NextBytes(size, limit) == IF limit < 2 * size THEN limit ELSE 2 * size

\* The buffers of all groups: the first one is doubled until it would exceed
\* the limit.  No class needs more than eight doublings.
Doublings == {1, 2, 4, 8, 16, 32, 64, 128, 256}
Buffers(i) ==
  {b \in {d * InitBytes(i) : d \in Doublings} : b < LimitBytes(i)} \cup {LimitBytes(i)}

\* gmem_allocate_impl: a byte more is needed, and room to align the memory.
Needed(n, align) == IF align > MinAlign THEN n + 1 + (align - 1) ELSE n + 1

\* calc_init_slot_entry
Entry(n) ==
  IF n <= 512 THEN (n - 1) \div 8
  ELSE IF n <= 1024 THEN (n - 513) \div 64 + 64
  ELSE IF n <= 2048 THEN (n - 1025) \div 128 + 72
  ELSE IF n <= 4096 THEN (n - 2049) \div 256 + 80
  ELSE IF n <= 8192 THEN (n - 4097) \div 512 + 88
  ELSE IF n <= 16384 THEN (n - 8193) \div 1024 + 96
  ELSE IF n <= 32768 THEN (n - 16385) \div 2048 + 104
  ELSE IF n <= 65536 THEN (n - 32769) \div 4096 + 112
  ELSE IF n <= 131072 THEN (n - 65537) \div 8192 + 120
  ELSE NoClass

-----------------------------------------------------------------------------
(* The slots of a group, and the memory in a slot                          *)

\* calc_one_slot_size
OneSlot(size) ==
  8 * (((IF size < MinAlign THEN MinAlign ELSE size) + LinkInfo + 1 + MinAlign - 1) \div 8)

\* calc_number_of_slots
NumSlots(size, slot) == (size - GroupHead) \div slot

\* calc_begin_of_slots and get_slot_pointer
SlotAt(base, slot, k) == 8 * ((base + GroupHead + MinAlign - 1) \div 8) + k * slot

\* get_slot_idx, of a pointer to a slot of the group
IndexOf(base, slot, p) == (p - SlotAt(base, slot, 0)) \div slot

\* The least multiple of align that is not less than p.
AlignUp(p, align) == IF p % align = 0 THEN p ELSE p + (align - (p % align))

\* get_aligned_allocated_mem_top: the memory lies behind an allocated_mem_top,
\* which is the one of the slot or is put at the aligned address.
PointerIn(at, align) ==
  IF AlignUp(at + DataAt, align) = at + DataAt
  THEN at + DataAt
  ELSE AlignUp(at + DataAt, align) + MinAlign

\* get_max_allocatable_size: the bytes from p to the next slot
MaxAllocatable(base, slot, p) == SlotAt(base, slot, IndexOf(base, slot, p) + 1) - p

-----------------------------------------------------------------------------
(* A slot of a class, in a group                                           *)

\* Slot k of a group of class i that is at base and has so many bytes: it is
\* in use for n bytes that are aligned to align.
IsSlot(i, base, bytes, k) ==
  /\ i \in 0 .. NoClass - 1 /\ bytes \in Buffers(i)
  /\ base \in Nat /\ base % MinAlign = 0
  /\ k \in 0 .. NumSlots(bytes, OneSlot(Allocatable(i))) - 1
Takes(i, n, align) ==
  /\ n \in Nat /\ align \in Nat \ {0}
  /\ Needed(n, align) <= Allocatable(i)

\* The memory that a user is given lies in the slot, behind the slot's own data
\* and with a byte to spare, and the slot lies in the group.
MemoryInSlot(i, base, bytes, k, n, align) ==
  LET slot == OneSlot(Allocatable(i))
      at   == SlotAt(base, slot, k)
  IN  /\ at + DataAt <= PointerIn(at, align)
      /\ PointerIn(at, align) + n < SlotAt(base, slot, k + 1)
      /\ base + GroupHead <= at
      /\ SlotAt(base, slot, k + 1) <= base + bytes

\* The slot found by the address is the one the memory lies in, and what
\* get_max_allocatable_size says of it is no less than was asked for.
SlotIsFound(i, base, k, n, align) ==
  LET slot == OneSlot(Allocatable(i))
      p    == PointerIn(SlotAt(base, slot, k), align)
  IN  /\ IndexOf(base, slot, p) = k
      /\ n <= MaxAllocatable(base, slot, p)
=============================================================================
