-------------------------- MODULE MCAllocOnlyChamber --------------------------
(***************************************************************************)
(* Small instances of AllocOnlyChamber: pages of 128 bytes, chambers of    *)
(* two pages that hold three small rooms.                                  *)
(***************************************************************************)
EXTENDS AllocOnlyChamber

CONSTANTS t1, t2, t3

\* The second is not aligned to 256 bytes.
FourPlaces == <<1536, 384, 1024, 2048>>

Alloc(n, align) == [op |-> "allocate", n |-> n, align |-> align]
Call(op) == [op |-> op, n |-> 0, align |-> 1]
Free == Call("deallocate")
Find == Call("belongs")
Count == Call("inspect")

Small == Alloc(0, 8)
Half == Alloc(40, 64)   \* half a chamber
Whole == Alloc(130, 8)  \* all of a chamber
Page == Alloc(8, 256)   \* aligned beyond a page
Huge == Alloc(200, 8)   \* more than may be mapped

Three(a, b, c) == [t \in Threads |-> CASE t = t1 -> a [] t = t2 -> b [] OTHER -> c]

RoomScripts ==
  { \* three allocate at once, where there is no chamber
    Three(<<Small>>, <<Small>>, <<Half>>),
    \* the chambers are full, and the hint moves
    Three(<<Whole, Small>>, <<Whole, Small>>, <<>>),
    Three(<<Whole, Half, Half, Small>>, <<Small>>, <<>>),
    \* memory aligned beyond a page
    Three(<<Page, Small>>, <<Page, Free, Find>>, <<>>),
    \* a request that is refused
    Three(<<Huge, Small>>, <<Small>>, <<>>),
    \* searches beside deallocations and allocations
    Three(<<Half, Half, Half>>, <<Free, Find>>, <<>>),
    Three(<<Whole, Half>>, <<Find>>, <<Free>>),
    \* inspections of a chamber that is being built
    Three(<<Small, Half, Count>>, <<Count>>, <<Free>>) }
=============================================================================
