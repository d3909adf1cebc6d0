----------------------------- MODULE BufferOps ------------------------------
(***************************************************************************)
(* One Buffer in the hands of nodes that call its operations in any order: *)
(* acquire a region, write to it and commit it, trim, shrink, grow, clear, *)
(* prepend a header.                                                       *)
(***************************************************************************)
EXTENDS Buffer

CONSTANTS Sizes,    \* the sizes, in bytes, the callers use
          MaxWords  \* bound: no resize beyond this many words

ASSUME SizesAssumption == Sizes \subseteq Nat
ASSUME MaxWordsAssumption == MaxWords \in Nat /\ 4 * MaxWords < SizeT

VARIABLES b,       \* the buffer
          granted  \* the region [at, at + len) the last acquire handed out and
                   \* nobody has committed yet; roomy tells whether three
                   \* bytes were left and the view ended on a word

vars == <<b, granted>>

Nothing == [at |-> 0, len |-> 0, roomy |-> FALSE]

Region == [at : Nat, len : Nat, roomy : BOOLEAN]

\* Every operation but acquire gives up the region.
Update(c) ==
  /\ c.words <= MaxWords
  /\ b' = c
  /\ granted' = Nothing

AcquireOp(size) ==
  LET c == Acquire(b, size) IN
  /\ c.words <= MaxWords
  /\ b' = c
  /\ granted' = [at |-> c.acquiredOffset, len |-> size,
                 roomy |-> Bytes(b) >= End(b) + 3 /\ End(b) % 4 = 0]

CommitOp(size) ==
  /\ granted.len > 0
  /\ size <= granted.len
  /\ Update(Commit(b, size))

PrependOp(size) ==
  /\ b.size > 0 /\ size > 0
  /\ Update(Prepend(b, size))

Init ==
  /\ \/ \E size \in Sizes : b = Create(size)
     \/ \E size, reserved, offset \in Sizes :
          b = CreateFrom(size, reserved, offset)
  /\ b.words <= MaxWords
  /\ granted = Nothing

\* Once the view, or a region that is written to, reaches beyond the vector,
\* the behaviour of the program is undefined: nothing is said about what
\* follows.
Defined ==
  /\ End(b) <= Bytes(b)
  /\ granted.at + granted.len <= Bytes(b)

Next ==
  /\ Defined
  /\ \E size \in Sizes :
       \/ AcquireOp(size)
       \/ CommitOp(size)
       \/ PrependOp(size)
       \/ Update(Grow(b, size))
       \/ Update(Shrink(b, size))
       \/ Update(TrimFront(b, size))
       \/ Update(TrimBack(b, size))
       \/ Update(Clear(b))

Spec == Init /\ [][Next]_vars
-----------------------------------------------------------------------------
\* Every variable has its type.
TypeOK == b \in BufferPrivate /\ granted \in Region

\* A region handed out by acquire never overlaps the bytes the view still
\* holds, so a node may read its input while it writes its output
\* (AudioConverter, Crossover, AirplayDecrypter and the decoders all do).
AcquireDisjoint ==
  granted.len > 0 =>
    \/ granted.at + granted.len <= b.offset
    \/ End(b) <= granted.at
    \/ b.size = 0

\* With three bytes to spare and a view that ends on a word, the region
\* lies inside the vector.
AcquireFitsIfRoomy ==
  granted.roomy => granted.at + granted.len <= Bytes(b)
=============================================================================
