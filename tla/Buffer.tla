------------------------------- MODULE Buffer -------------------------------
(***************************************************************************)
(* coro::core::Buffer as operators on a record: words is the length of the *)
(* std::vector<int32_t>, the other fields are those of BufferPrivate, in   *)
(* bytes.  What the bytes hold is left out; where they are is kept.        *)
(* Subtractions on size_t wrap around at SizeT.                            *)
(***************************************************************************)
EXTENDS Integers

CONSTANT SizeT  \* the number of values of size_t

ASSUME SizeTAssumption == SizeT \in Nat \ {0}

BufferPrivate == [words : Nat, size : Nat, offset : Nat, acquiredOffset : Nat]

\* One past the last byte of the view, and of the storage.
End(b) == b.offset + b.size
Bytes(b) == 4 * b.words

\* Buffer::Buffer(size)
Create(size) ==
  [words |-> (size + 3) \div 4, size |-> 0, offset |-> 0, acquiredOffset |-> 0]

\* Buffer::Buffer(data, size, reservedSize, offset)
CreateFrom(size, reservedSize, offset) ==
  LET need == IF size + offset > reservedSize THEN size + offset
                                              ELSE reservedSize
  IN [words |-> need \div 4 + 1, size |-> size, offset |-> offset,
      acquiredOffset |-> 0]

\* Where acquire puts a region that does not fit in front of the view.
AtBack(b) == End(b) + (End(b) % 4)

\* sizeAtBack: wraps around when fewer than three bytes are left.
SizeAtBack(b) == (Bytes(b) - b.offset - b.size - 3) % SizeT

\* Mutant: space in front is assumed one byte too early.
AcquireOffByOne(b, size) ==
  IF b.offset + 1 >= size THEN [b EXCEPT !.acquiredOffset = 0]
  ELSE [b EXCEPT !.acquiredOffset = AtBack(b),
                 !.words = IF SizeAtBack(b) >= size THEN @
                           ELSE @ + (size - SizeAtBack(b)) \div 4]

\* Mutant: the vector grows by the requested size whatever is left at back.
AcquireAlwaysGrows(b, size) ==
  IF b.offset >= size THEN [b EXCEPT !.acquiredOffset = 0]
  ELSE [b EXCEPT !.acquiredOffset = AtBack(b), !.words = @ + size \div 4]

\* Mutant: the vector is never resized.
AcquireNeverGrows(b, size) ==
  [b EXCEPT !.acquiredOffset = IF b.offset >= size THEN 0 ELSE AtBack(b)]

\* Buffer::acquire: in front of the view, behind it, or behind it after
\* resizing the vector.
Acquire(b, size) ==
  IF b.offset >= size THEN [b EXCEPT !.acquiredOffset = 0]
  ELSE [b EXCEPT !.acquiredOffset = AtBack(b),
                 !.words = IF SizeAtBack(b) >= size THEN @
                           ELSE @ + (size - SizeAtBack(b)) \div 4]

\* Buffer::commit
Commit(b, size) == [b EXCEPT !.offset = b.acquiredOffset, !.size = size]

\* Buffer::grow and Buffer::shrink
Grow(b, size) == [b EXCEPT !.size = IF Bytes(b) < size THEN Bytes(b) ELSE size]
Shrink(b, size) == [b EXCEPT !.size = IF b.size < size THEN b.size ELSE size]

\* Mutant: the offset is not reset.
ClearKeepsOffset(b) == [b EXCEPT !.size = 0]

\* Buffer::clear
Clear(b) == [b EXCEPT !.offset = 0, !.size = 0]

\* Buffer::trimFront and Buffer::trimBack: nothing happens to a view that is
\* too short.
TrimFront(b, size) ==
  IF size > b.size THEN b
  ELSE [b EXCEPT !.offset = @ + size, !.size = @ - size]
TrimBack(b, size) ==
  IF size > b.size THEN b ELSE [b EXCEPT !.size = @ - size]

\* Buffer::prepend.  What the view becomes; the bytes are copied elsewhere
\* (the byte offset is added to an int32_t pointer, so it counts in words).
Prepend(b, size) ==
  IF b.offset >= size
  THEN [b EXCEPT !.offset = @ - size, !.size = @ + size]
  ELSE Commit(Acquire(b, b.size + size), b.size + size)
=============================================================================
