---------------------------- MODULE BufferProofs ----------------------------
(***************************************************************************)
(* A buffer whose operations are called in any order, and buffers that     *)
(* come from the free list and go back to it, for any sizes and any number *)
(* of buffers; the receive loops, for any padding, any mtu and any SizeT.  *)
(***************************************************************************)
EXTENDS BufferPool, ReceiveLoop, SequenceTheorems, TLAPS
-----------------------------------------------------------------------------
(* What the operations of Buffer return, for any sizes: the facts that the *)
(* proofs about users of buffers rest on.                                  *)

\* Remainders, as size_t arithmetic and the alignment need them.
LEMMA ModBound == ASSUME NEW a \in Int, NEW n \in Nat \ {0}
                  PROVE  a % n \in 0 .. n - 1
  OBVIOUS

LEMMA ModSmall == ASSUME NEW n \in Nat \ {0}, NEW a \in 0 .. n - 1
                  PROVE  a % n = a
  OBVIOUS

LEMMA DivFour == ASSUME NEW a \in Nat
                 PROVE  /\ a \div 4 \in Nat
                        /\ 4 * (a \div 4) <= a
                        /\ a <= 4 * (a \div 4) + 3
  OBVIOUS

LEMMA SizeAtBackType == ASSUME NEW c \in BufferPrivate
                        PROVE  SizeAtBack(c) \in Nat
<1>1. Bytes(c) - c.offset - c.size - 3 \in Int
  BY DEF BufferPrivate, Bytes
<1>2. \A a \in Int : a % SizeT \in 0 .. SizeT - 1
  BY ModBound, SizeTAssumption
<1>3. SizeAtBack(c) \in 0 .. SizeT - 1
  BY <1>1, <1>2 DEF SizeAtBack
<1>4. QED
  BY <1>3, SizeTAssumption

\* acquire leaves the view alone and puts the region in front of it or behind.
LEMMA AcquirePlaces ==
  ASSUME NEW c \in BufferPrivate, NEW n \in Nat
  PROVE  LET a == Acquire(c, n) IN
         /\ a \in BufferPrivate
         /\ a.offset = c.offset /\ a.size = c.size
         /\ c.words <= a.words
         /\ IF n <= c.offset THEN a.acquiredOffset = 0
            ELSE a.acquiredOffset \in End(c) .. End(c) + 3
<1>1. SizeAtBack(c) \in Nat
  BY SizeAtBackType
<1>2. End(c) \in Nat /\ End(c) % 4 \in 0 .. 3
  BY DEF BufferPrivate, End
<1>3. AtBack(c) \in End(c) .. End(c) + 3
  BY <1>2 DEF AtBack
<1>4. SizeAtBack(c) < n => (n - SizeAtBack(c)) \div 4 \in Nat
  BY <1>1, DivFour
<1>5. CASE n <= c.offset
  BY <1>5 DEF Acquire, BufferPrivate
<1>6. CASE n > c.offset
  <2> DEFINE w == IF SizeAtBack(c) >= n THEN c.words
                  ELSE c.words + (n - SizeAtBack(c)) \div 4
  <2>1. w \in Nat /\ c.words <= w
    BY <1>1, <1>4 DEF BufferPrivate
  <2>2. AtBack(c) \in Nat
    BY <1>2, <1>3
  <2>3. Acquire(c, n) = [c EXCEPT !.acquiredOffset = AtBack(c), !.words = w]
    BY <1>6 DEF Acquire, BufferPrivate
  <2> HIDE DEF w
  <2>4. Acquire(c, n) = [words |-> w, size |-> c.size, offset |-> c.offset,
                         acquiredOffset |-> AtBack(c)]
    BY <2>3 DEF BufferPrivate
  <2>5. QED
    BY <1>3, <1>6, <2>1, <2>2, <2>4 DEF BufferPrivate
<1>7. QED
  BY <1>5, <1>6 DEF BufferPrivate

\* With three bytes to spare sizeAtBack does not wrap around; the region then
\* overruns the vector by no more than the alignment added, and the vector
\* grows no further than needed.
LEMMA AcquireBounds ==
  ASSUME NEW c \in BufferPrivate, NEW n \in Nat,
         End(c) + 3 <= Bytes(c), Bytes(c) < SizeT
  PROVE  LET a == Acquire(c, n) IN
         /\ n <= c.offset => a.words = c.words
         /\ n > c.offset =>
              /\ End(c) + n <= Bytes(a)
              /\ Bytes(a) = Bytes(c) \/ Bytes(a) <= End(c) + n + 3
              /\ \/ a.acquiredOffset + n <= Bytes(a)
                 \/ a.acquiredOffset = End(c) + (End(c) % 4)
<1>1. Bytes(c) - c.offset - c.size - 3 \in 0 .. SizeT - 1
  BY SizeTAssumption DEF BufferPrivate, Bytes, End
<1>2. SizeAtBack(c) = Bytes(c) - End(c) - 3
  <2>1. SizeAtBack(c) = Bytes(c) - c.offset - c.size - 3
    BY <1>1, ModSmall, SizeTAssumption DEF SizeAtBack
  <2>2. QED
    BY <2>1 DEF End, BufferPrivate, Bytes
<1>3. c.words \in Nat /\ End(c) \in Nat /\ Bytes(c) \in Nat
  BY DEF BufferPrivate, End, Bytes
<1>4. CASE n <= c.offset
  BY <1>4 DEF Acquire, BufferPrivate
<1>5. CASE n > c.offset /\ SizeAtBack(c) >= n
  <2>1. /\ Acquire(c, n).words = c.words
        /\ Acquire(c, n).acquiredOffset = AtBack(c)
    BY <1>5 DEF Acquire, BufferPrivate
  <2>2. QED
    BY <2>1, <1>2, <1>3, <1>5 DEF Bytes, AtBack, BufferPrivate
<1>6. CASE n > c.offset /\ SizeAtBack(c) < n
  <2> DEFINE more == n - SizeAtBack(c)
  <2>1. more \in Nat
    BY <1>6, <1>2, <1>3
  <2>2. /\ more \div 4 \in Nat
        /\ 4 * (more \div 4) <= more
        /\ more <= 4 * (more \div 4) + 3
    BY <2>1, DivFour
  <2>3. /\ Acquire(c, n).words = c.words + (more \div 4)
        /\ Acquire(c, n).acquiredOffset = AtBack(c)
    BY <1>6, SizeAtBackType DEF Acquire, BufferPrivate
  <2>4. Bytes(Acquire(c, n)) = Bytes(c) + 4 * (more \div 4)
    BY <2>2, <2>3, <1>3 DEF Bytes
  <2> HIDE DEF more
  <2>5. more = n - (Bytes(c) - End(c) - 3)
    BY <1>2 DEF more
  <2>6. End(c) + n <= Bytes(Acquire(c, n))
    BY <2>1, <2>2, <2>4, <2>5, <1>3
  <2>7. Bytes(Acquire(c, n)) <= End(c) + n + 3
    BY <2>1, <2>2, <2>4, <2>5, <1>3
  <2>8. QED
    BY <1>6, <2>3, <2>6, <2>7 DEF AtBack, BufferPrivate
<1>7. QED
  BY <1>3, <1>4, <1>5, <1>6, SizeAtBackType DEF BufferPrivate
-----------------------------------------------------------------------------
\* The operations keep the fields natural numbers.
LEMMA OpTypes ==
  ASSUME NEW c \in BufferPrivate, NEW n \in Nat
  PROVE  /\ Commit(c, n) \in BufferPrivate
         /\ Grow(c, n) \in BufferPrivate
         /\ Shrink(c, n) \in BufferPrivate
         /\ Clear(c) \in BufferPrivate
         /\ TrimFront(c, n) \in BufferPrivate
         /\ TrimBack(c, n) \in BufferPrivate
<1>1. Commit(c, n) \in BufferPrivate
  BY DEF Commit, BufferPrivate
<1>2. Grow(c, n) \in BufferPrivate
  BY DEF Grow, Bytes, BufferPrivate
<1>3. Shrink(c, n) \in BufferPrivate
  BY DEF Shrink, BufferPrivate
<1>4. Clear(c) \in BufferPrivate
  BY DEF Clear, BufferPrivate
<1>5. TrimFront(c, n) \in BufferPrivate
  <2>1. CASE n > c.size
    BY <2>1 DEF TrimFront
  <2>2. CASE n <= c.size
    <3>1. c.size - n \in Nat /\ c.offset + n \in Nat
      BY <2>2 DEF BufferPrivate
    <3>2. TrimFront(c, n) = [c EXCEPT !.offset = c.offset + n,
                                      !.size = c.size - n]
      BY <2>2 DEF TrimFront, BufferPrivate
    <3>3. QED
      BY <3>1, <3>2 DEF BufferPrivate
  <2>3. QED
    BY <2>1, <2>2 DEF BufferPrivate
<1>6. TrimBack(c, n) \in BufferPrivate
  BY DEF TrimBack, BufferPrivate
<1>7. QED
  BY <1>1, <1>2, <1>3, <1>4, <1>5, <1>6

LEMMA CreateType ==
  ASSUME NEW n \in Nat
  PROVE  Create(n) \in BufferPrivate /\ n <= Bytes(Create(n))
<1>1. (n + 3) \div 4 \in Nat /\ n + 3 <= 4 * ((n + 3) \div 4) + 3
  BY DivFour
<1>2. QED
  BY <1>1 DEF Create, BufferPrivate, Bytes

LEMMA CreateFromType ==
  ASSUME NEW n \in Nat, NEW r \in Nat, NEW o \in Nat
  PROVE  CreateFrom(n, r, o) \in BufferPrivate
<1> DEFINE need == IF n + o > r THEN n + o ELSE r
<1>1. need \in Nat
  OBVIOUS
<1>2. need \div 4 \in Nat
  BY <1>1, DivFour
<1>3. QED
  BY <1>2 DEF CreateFrom, BufferPrivate

LEMMA PrependType ==
  ASSUME NEW c \in BufferPrivate, NEW n \in Nat
  PROVE  Prepend(c, n) \in BufferPrivate
<1>1. c.size + n \in Nat
  BY DEF BufferPrivate
<1>2. Acquire(c, c.size + n) \in BufferPrivate
  BY <1>1, AcquirePlaces
<1>3. Commit(Acquire(c, c.size + n), c.size + n) \in BufferPrivate
  BY <1>1, <1>2, OpTypes
<1>4. CASE c.offset >= n
  <2>1. c.offset - n \in Nat /\ c.size + n \in Nat
    BY <1>4 DEF BufferPrivate
  <2>2. Prepend(c, n) = [c EXCEPT !.offset = c.offset - n,
                                  !.size = c.size + n]
    BY <1>4 DEF Prepend, BufferPrivate
  <2>3. QED
    BY <2>1, <2>2 DEF BufferPrivate
<1>5. CASE ~(c.offset >= n)
  BY <1>3, <1>5 DEF Prepend
<1>6. QED
  BY <1>4, <1>5
-----------------------------------------------------------------------------
(* One buffer, without the pool *)

\* The state of a buffer between two calls.
WordsBounded == b.words <= MaxWords

BufferInv == TypeOK /\ WordsBounded /\ AcquireDisjoint /\ AcquireFitsIfRoomy

LEMMA BufferInit == Init => BufferInv
<1> SUFFICES ASSUME Init PROVE BufferInv
  OBVIOUS
<1>1. b \in BufferPrivate
  BY CreateType, CreateFromType, SizesAssumption DEF Init
<1>2. QED
  BY <1>1 DEF Init, BufferInv, TypeOK, WordsBounded, AcquireDisjoint,
              AcquireFitsIfRoomy, Nothing, Region,
              BufferPrivate

LEMMA UpdateInv ==
  ASSUME NEW c \in BufferPrivate, Update(c) PROVE BufferInv'
  BY DEF Update, BufferInv, TypeOK, WordsBounded, AcquireDisjoint,
         AcquireFitsIfRoomy, Nothing, Region, BufferPrivate

\* Every operation of Buffer keeps the invariant; only acquire hands out a
\* region.
LEMMA BufferStep == BufferInv /\ [Next]_vars => BufferInv'
<1> SUFFICES ASSUME BufferInv, [Next]_vars PROVE BufferInv'
  OBVIOUS
<1>1. b \in BufferPrivate /\ b.words <= MaxWords
  BY DEF BufferInv, TypeOK, WordsBounded
<1>2. ASSUME NEW n \in Sizes, AcquireOp(n) PROVE BufferInv'
  <2> DEFINE c == Acquire(b, n)
  <2>1. n \in Nat
    BY SizesAssumption
  <2>2. /\ c \in BufferPrivate
        /\ c.offset = b.offset /\ c.size = b.size
        /\ IF n <= b.offset THEN c.acquiredOffset = 0
           ELSE c.acquiredOffset \in End(b) .. End(b) + 3
    BY <1>1, <2>1, AcquirePlaces
  <2>3. /\ b' = c /\ c.words <= MaxWords
        /\ granted'.at = c.acquiredOffset /\ granted'.len = n
        /\ granted'.roomy = (Bytes(b) >= End(b) + 3 /\ End(b) % 4 = 0)
        /\ granted' = [at |-> c.acquiredOffset, len |-> n,
                       roomy |-> Bytes(b) >= End(b) + 3 /\ End(b) % 4 = 0]
    BY <1>2 DEF AcquireOp
  <2>4. TypeOK' /\ WordsBounded'
    BY <2>1, <2>2, <2>3 DEF TypeOK, WordsBounded, Region,
                            BufferPrivate
  <2>5. AcquireDisjoint'
    BY <1>1, <2>1, <2>2, <2>3 DEF AcquireDisjoint, End, BufferPrivate
  <2>6. AcquireFitsIfRoomy'
    <3>1. SUFFICES ASSUME Bytes(b) >= End(b) + 3, End(b) % 4 = 0
                   PROVE  c.acquiredOffset + n <= Bytes(c)
      BY <2>3 DEF AcquireFitsIfRoomy
    <3>2. Bytes(b) < SizeT /\ Bytes(b) \in Nat /\ End(b) \in Nat
      BY <1>1, MaxWordsAssumption, SizeTAssumption
         DEF Bytes, BufferPrivate, End
    <3>3. /\ n <= b.offset => c.words = b.words
          /\ n > b.offset =>
               /\ End(b) + n <= Bytes(c)
               /\ \/ c.acquiredOffset + n <= Bytes(c)
                  \/ c.acquiredOffset = End(b) + (End(b) % 4)
      BY <1>1, <2>1, <3>1, <3>2, AcquireBounds
    <3>4. CASE n <= b.offset
      BY <1>1, <2>1, <2>2, <3>1, <3>3, <3>4 DEF Bytes, End, BufferPrivate
    <3>5. CASE n > b.offset
      BY <1>1, <2>1, <2>2, <3>1, <3>2, <3>3, <3>5 DEF BufferPrivate
    <3>6. QED
      BY <1>1, <2>1, <3>4, <3>5 DEF BufferPrivate
  <2>7. QED
    BY <2>4, <2>5, <2>6 DEF BufferInv
<1>3. ASSUME NEW n \in Sizes, CommitOp(n) PROVE BufferInv'
  BY <1>1, <1>3, OpTypes, UpdateInv, SizesAssumption DEF CommitOp
<1>4. ASSUME NEW n \in Sizes, PrependOp(n) PROVE BufferInv'
  <2>1. n \in Nat
    BY SizesAssumption
  <2>2. Prepend(b, n) \in BufferPrivate
    BY <1>1, <2>1, PrependType
  <2>3. QED
    BY <1>4, <2>2, UpdateInv DEF PrependOp
<1>5. ASSUME NEW n \in Sizes,
             \/ Update(Grow(b, n)) \/ Update(Shrink(b, n))
             \/ Update(TrimFront(b, n)) \/ Update(TrimBack(b, n))
             \/ Update(Clear(b))
      PROVE  BufferInv'
  BY <1>1, <1>5, OpTypes, UpdateInv, SizesAssumption
<1>6. CASE UNCHANGED vars
  BY <1>6 DEF vars, BufferInv, TypeOK, WordsBounded, AcquireDisjoint,
              AcquireFitsIfRoomy, End, Bytes
<1>7. QED
  BY <1>2, <1>3, <1>4, <1>5, <1>6 DEF Next

\* Whatever is done to a buffer before, acquire never hands out bytes the
\* view still holds.
THEOREM AcquireNeverOverlaps == Spec => []AcquireDisjoint
<1>1. BufferInv => AcquireDisjoint
  BY DEF BufferInv
<1>2. QED
  BY <1>1, BufferInit, BufferStep, PTL DEF Spec

\* With three bytes to spare and an aligned end of the view, acquire hands
\* out memory inside the vector.
THEOREM AcquireFitsWithRoom == Spec => []AcquireFitsIfRoomy
<1>1. BufferInv => AcquireFitsIfRoomy
  BY DEF BufferInv
<1>2. QED
  BY <1>1, BufferInit, BufferStep, PTL DEF Spec
-----------------------------------------------------------------------------
(* The pool *)

Storage == {c \in BufferPrivate : c.words <= MaxWords}
Entry == [id : Nat, buffer : Storage]

\* The free list, with what the application holds: cleared buffers, each of
\* them in one place.
FreeOK(free, held, m) ==
  /\ free \in Seq(Entry)
  /\ \A i \in DOMAIN free :
       /\ free[i].id \in 1 .. m
       /\ free[i].buffer.size = 0 /\ free[i].buffer.offset = 0
  /\ \A i, j \in DOMAIN free : free[i].id = free[j].id => i = j
  /\ held \subseteq Entry
  /\ \A f \in held : f.id \in 1 .. m
  /\ \A f \in held, i \in DOMAIN free : f.id # free[i].id
  /\ \A f, g \in held : f.id = g.id => f = g

\* The buffer with this number is in neither.
Elsewhere(id, free, held) ==
  /\ \A i \in DOMAIN free : free[i].id # id
  /\ \A f \in held : f.id # id

PoolInv ==
  /\ BufferInv
  /\ made \in Nat /\ mine \in 1 .. made
  /\ FreeOK(s_buffers, kept, made)
  /\ Elsewhere(mine, s_buffers, kept)
-----------------------------------------------------------------------------
\* What is left of a sequence without its i-th element.
LEMMA RemoveAtFacts ==
  ASSUME NEW T, NEW s \in Seq(T), NEW i \in 1 .. Len(s)
  PROVE  /\ RemoveAt(s, i) \in Seq(T)
         /\ Len(RemoveAt(s, i)) = Len(s) - 1
         /\ \A j \in 1 .. Len(s) - 1 :
              RemoveAt(s, i)[j] = s[IF j < i THEN j ELSE j + 1]
<1> DEFINE u == SubSeq(s, 1, i - 1)
           v == SubSeq(s, i + 1, Len(s))
<1>1. u \in Seq(T) /\ Len(u) = i - 1
  OBVIOUS
<1>2. v \in Seq(T) /\ Len(v) = Len(s) - i
  OBVIOUS
<1>3. \A j \in 1 .. i - 1 : u[j] = s[j]
  OBVIOUS
<1>4. \A j \in 1 .. Len(s) - i : v[j] = s[i + j]
  OBVIOUS
<1>5. RemoveAt(s, i) = u \o v
  BY DEF RemoveAt
<1> HIDE DEF u, v
<1>6. u \o v \in Seq(T) /\ Len(u \o v) = Len(s) - 1
  <2>1. u \o v \in Seq(T) /\ Len(u \o v) = Len(u) + Len(v)
    BY <1>1, <1>2, ConcatProperties, Zenon
  <2>2. QED
    BY <1>1, <1>2, <2>1
<1>7. ASSUME NEW j \in 1 .. Len(s) - 1
      PROVE  (u \o v)[j] = s[IF j < i THEN j ELSE j + 1]
  <2>1. (u \o v)[j] = IF j <= Len(u) THEN u[j] ELSE v[j - Len(u)]
    BY <1>1, <1>2, ConcatProperties
  <2>2. CASE j < i
    BY <1>1, <1>3, <2>1, <2>2
  <2>3. CASE ~(j < i)
    <3>1. j - Len(u) \in 1 .. Len(s) - i /\ i + (j - Len(u)) = j + 1
      BY <1>1, <2>3
    <3>2. QED
      BY <1>1, <1>4, <2>1, <2>3, <3>1
  <2>4. QED
    BY <2>2, <2>3
<1>8. QED
  BY <1>5, <1>6, <1>7

\* The deleter puts a buffer that nobody has any more on the list.
LEMMA DeleterOK ==
  ASSUME NEW free, NEW held, NEW m \in Nat, NEW id \in 1 .. m,
         NEW c \in Storage,
         FreeOK(free, held, m), Elsewhere(id, free, held)
  PROVE  FreeOK(BufferDeleter(free, id, c), held, m)
<1> DEFINE e == Numbered(id, Clear(c))
           all == Append(free, e)
<1>1. Clear(c) \in Storage /\ Clear(c).size = 0 /\ Clear(c).offset = 0
  BY OpTypes DEF Clear, Storage, BufferPrivate
<1>2. e \in Entry /\ e.id = id /\ e.buffer = Clear(c)
  BY <1>1 DEF Numbered, Entry
<1> HIDE DEF e
<1>3. free \in Seq(Entry) /\ DOMAIN free = 1 .. Len(free) /\ Len(free) \in Nat
  BY DEF FreeOK
<1>4. /\ all \in Seq(Entry) /\ DOMAIN all = 1 .. Len(free) + 1
      /\ \A i \in 1 .. Len(free) : all[i] = free[i]
      /\ all[Len(free) + 1] = e
  BY <1>2, <1>3, AppendProperties
<1> HIDE DEF all
<1>5. \A i \in DOMAIN all :
        \/ i \in DOMAIN free /\ all[i] = free[i]
        \/ i = Len(free) + 1
  BY <1>3, <1>4
<1>6. \A i \in DOMAIN all :
        /\ all[i].id \in 1 .. m
        /\ all[i].buffer.size = 0 /\ all[i].buffer.offset = 0
  BY <1>1, <1>2, <1>4, <1>5 DEF FreeOK
<1>7. \A i, j \in DOMAIN all : all[i].id = all[j].id => i = j
  BY <1>2, <1>3, <1>4, <1>5 DEF FreeOK, Elsewhere
<1>8. \A f \in held, i \in DOMAIN all : f.id # all[i].id
  BY <1>2, <1>4, <1>5 DEF FreeOK, Elsewhere
<1>9. FreeOK(all, held, m)
  BY <1>4, <1>6, <1>7, <1>8 DEF FreeOK
<1>10. QED
  BY <1>9 DEF all, e, BufferDeleter

HandsOut(n, held) ==
  /\ b' \in Storage /\ b'.size = 0 /\ b'.offset = 0
  /\ Bytes(b') >= n /\ granted' = Nothing
  /\ made' \in Nat /\ mine' \in 1 .. made'
  /\ FreeOK(s_buffers', held, made')
  /\ Elsewhere(mine', s_buffers', held)

\* Whatever the free list, acquire yields an empty buffer that is large enough
\* and takes it off the list.
LEMMA AcquireOK ==
  ASSUME NEW free, NEW held, NEW n \in Nat, made \in Nat,
         FreeOK(free, held, made), acquire(free, n)
  PROVE  HandsOut(n, held)
<1> DEFINE fits == {i \in DOMAIN free : Bytes(free[i].buffer) >= n}
<1>1. free \in Seq(Entry) /\ DOMAIN free = 1 .. Len(free) /\ Len(free) \in Nat
  BY DEF FreeOK
<1>2. ASSUME NEW i \in fits,
             b' = free[i].buffer, mine' = free[i].id, made' = made,
             s_buffers' = RemoveAt(free, i), granted' = Nothing
      PROVE  HandsOut(n, held)
  <2> DEFINE rest == RemoveAt(free, i)
             Was(j) == IF j < i THEN j ELSE j + 1
  <2>1. /\ i \in 1 .. Len(free) /\ i \in DOMAIN free /\ free[i] \in Entry
        /\ Bytes(free[i].buffer) >= n
    BY <1>1
  <2> HIDE DEF fits
  <2>2. /\ rest \in Seq(Entry) /\ DOMAIN rest = 1 .. Len(free) - 1
        /\ \A j \in 1 .. Len(free) - 1 : rest[j] = free[Was(j)]
    <3>1. /\ rest \in Seq(Entry) /\ Len(rest) = Len(free) - 1
          /\ \A j \in 1 .. Len(free) - 1 :
               rest[j] = free[IF j < i THEN j ELSE j + 1]
      BY <1>1, <2>1, RemoveAtFacts, Zenon
    <3> HIDE DEF rest
    <3>2. DOMAIN rest = 1 .. Len(rest)
      BY <3>1
    <3>3. QED
      BY <3>1, <3>2
  <2>3. \A j \in DOMAIN rest : Was(j) \in DOMAIN free /\ Was(j) # i
    BY <1>1, <2>1, <2>2
  <2>4. \A j, k \in DOMAIN rest : Was(j) = Was(k) => j = k
    BY <1>1, <2>1, <2>2
  <2> HIDE DEF rest, Was
  <2>5. FreeOK(rest, held, made)
    <3>1. \A j \in DOMAIN rest : rest[j] = free[Was(j)]
      BY <2>2
    <3>2. \A j \in DOMAIN rest :
            /\ rest[j].id \in 1 .. made
            /\ rest[j].buffer.size = 0 /\ rest[j].buffer.offset = 0
      BY <2>3, <3>1 DEF FreeOK
    <3>3. \A j, k \in DOMAIN rest : rest[j].id = rest[k].id => j = k
      BY <2>3, <2>4, <3>1 DEF FreeOK
    <3>4. \A f \in held, j \in DOMAIN rest : f.id # rest[j].id
      BY <2>3, <3>1 DEF FreeOK
    <3>5. QED
      BY <2>2, <3>2, <3>3, <3>4 DEF FreeOK
  <2>6. Elsewhere(free[i].id, rest, held)
    BY <2>1, <2>2, <2>3 DEF FreeOK, Elsewhere
  <2>7. free[i].buffer \in Storage
    BY <2>1 DEF Entry
  <2>8. QED
    BY <1>2, <2>1, <2>5, <2>6, <2>7 DEF HandsOut, FreeOK, rest
<1>3. ASSUME b' = Create(n), Create(n).words <= MaxWords, mine' = made + 1,
             s_buffers' = free, made' = made + 1, granted' = Nothing
      PROVE  HandsOut(n, held)
  <2>1. /\ b' \in Storage /\ b'.size = 0 /\ b'.offset = 0
        /\ Bytes(b') >= n
    BY <1>3, CreateType DEF Storage, Create, Bytes, BufferPrivate
  <2>2. FreeOK(free, held, made + 1)
    BY DEF FreeOK
  <2>3. Elsewhere(made + 1, free, held)
    BY DEF FreeOK, Elsewhere
  <2>4. QED
    BY <1>3, <2>1, <2>2, <2>3 DEF HandsOut
<1>4. QED
  BY <1>2, <1>3 DEF acquire
-----------------------------------------------------------------------------
LEMMA PoolInitOK == PoolInit => PoolInv
<1> SUFFICES ASSUME PoolInit PROVE PoolInv
  OBVIOUS
<1>1. BufferInv
  BY BufferInit DEF PoolInit
<1>2. s_buffers \in Seq(Entry) /\ DOMAIN s_buffers = {} /\ kept = {}
  BY DEF PoolInit
<1>3. QED
  BY <1>1, <1>2 DEF PoolInit, PoolInv, FreeOK, Elsewhere

\* A buffer that was just handed out is in a good state for BufferOps.
LEMMA HandedOutInv ==
  ASSUME NEW n, NEW held, HandsOut(n, held)
  PROVE  BufferInv'
  BY DEF HandsOut, Storage, BufferInv, TypeOK, WordsBounded, AcquireDisjoint,
         AcquireFitsIfRoomy, Nothing, Region

LEMMA KeepHandsOut ==
  ASSUME PoolInv, Keep PROVE HandsOut(Bytes(b), kept')
<1> DEFINE e == Numbered(mine, Clear(b))
           held == kept \cup {e}
<1>1. b \in Storage /\ Bytes(b) \in Nat
  BY DEF PoolInv, BufferInv, TypeOK, WordsBounded, Storage, Bytes,
         BufferPrivate
<1>2. Clear(b) \in Storage
  BY <1>1, OpTypes DEF Clear, Storage, BufferPrivate
<1>3. e \in Entry /\ e.id = mine
  BY <1>2 DEF Numbered, Entry, PoolInv
<1> HIDE DEF e
<1>4. FreeOK(s_buffers, held, made)
  BY <1>3 DEF PoolInv, FreeOK, Elsewhere
<1>5. acquire(s_buffers, Bytes(b)) /\ kept' = held
  BY DEF Keep, e
<1> HIDE DEF held
<1>6. HandsOut(Bytes(b), held)
  BY <1>1, <1>4, <1>5, AcquireOK DEF PoolInv
<1>7. QED
  BY <1>5, <1>6

LEMMA ReplaceHandsOut ==
  ASSUME PoolInv, NEW n \in Sizes, Replace(n) PROVE HandsOut(n, kept')
<1> DEFINE free == BufferDeleter(s_buffers, mine, b)
<1>1. b \in Storage
  BY DEF PoolInv, BufferInv, TypeOK, WordsBounded, Storage
<1>2. FreeOK(free, kept, made)
  BY <1>1, DeleterOK DEF PoolInv
<1>3. acquire(free, n) /\ kept' = kept /\ n \in Nat
  BY SizesAssumption DEF Replace
<1> HIDE DEF free
<1>4. HandsOut(n, kept)
  BY <1>2, <1>3, AcquireOK DEF PoolInv
<1>5. QED
  BY <1>3, <1>4

\* Every step keeps the buffers apart.
LEMMA PoolStep == PoolInv /\ [PoolNext]_poolVars => PoolInv'
<1> SUFFICES ASSUME PoolInv, [PoolNext]_poolVars PROVE PoolInv'
  OBVIOUS
<1>1. CASE Next /\ UNCHANGED <<mine, s_buffers, kept, made>>
  <2>1. BufferInv'
    BY <1>1, BufferStep DEF PoolInv
  <2>2. QED
    BY <1>1, <2>1 DEF PoolInv, FreeOK, Elsewhere
<1>2. CASE Keep
  <2>1. HandsOut(Bytes(b), kept')
    BY <1>2, KeepHandsOut
  <2>2. QED
    BY <2>1, HandedOutInv DEF HandsOut, PoolInv
<1>3. ASSUME NEW n \in Sizes, Replace(n) PROVE PoolInv'
  <2>1. HandsOut(n, kept')
    BY <1>3, ReplaceHandsOut
  <2>2. QED
    BY <2>1, HandedOutInv DEF HandsOut, PoolInv
<1>4. CASE Drop
  <2>1. PICK f \in kept :
          /\ kept' = kept \ {f}
          /\ s_buffers' = BufferDeleter(s_buffers, f.id, f.buffer)
          /\ UNCHANGED <<vars, mine, made>>
    BY <1>4 DEF Drop
  <2>2. /\ f \in Entry /\ f.buffer \in Storage /\ f.id \in 1 .. made
        /\ f.id # mine
    BY DEF PoolInv, FreeOK, Entry, Elsewhere
  <2>3. /\ FreeOK(s_buffers, kept \ {f}, made)
        /\ Elsewhere(f.id, s_buffers, kept \ {f})
    BY <2>2 DEF PoolInv, FreeOK, Elsewhere
  <2>4. FreeOK(s_buffers', kept', made)
    BY <2>1, <2>2, <2>3, DeleterOK DEF PoolInv
  <2>5. Elsewhere(mine, s_buffers', kept')
    <3> DEFINE e == Numbered(f.id, Clear(f.buffer))
    <3>1. Clear(f.buffer) \in Storage
      BY <2>2, OpTypes DEF Clear, Storage, BufferPrivate
    <3>2. e \in Entry /\ e.id = f.id
      BY <2>2, <3>1 DEF Numbered, Entry
    <3>3. s_buffers' = Append(s_buffers, e)
      BY <2>1 DEF BufferDeleter
    <3> HIDE DEF e
    <3>4. s_buffers \in Seq(Entry)
      BY DEF PoolInv, FreeOK
    <3>5. \A i \in DOMAIN s_buffers' :
            \/ i \in DOMAIN s_buffers /\ s_buffers'[i] = s_buffers[i]
            \/ s_buffers'[i] = e
      BY <3>2, <3>3, <3>4, AppendProperties
    <3>6. QED
      BY <2>1, <2>2, <3>2, <3>5 DEF PoolInv, Elsewhere
  <2>6. BufferInv'
    BY <2>1 DEF PoolInv, BufferInv, vars, TypeOK, WordsBounded,
                AcquireDisjoint, AcquireFitsIfRoomy, End, Bytes
  <2>7. QED
    BY <2>1, <2>4, <2>5, <2>6 DEF PoolInv
<1>5. CASE UNCHANGED poolVars
  <2>1. BufferInv'
    BY <1>5, BufferStep DEF PoolInv, poolVars
  <2>2. QED
    BY <1>5, <2>1 DEF PoolInv, poolVars, FreeOK, Elsewhere
<1>6. QED
  BY <1>1, <1>2, <1>3, <1>4, <1>5 DEF PoolNext

\* What Keep and Replace hand out is as good as new.
LEMMA HandsOutAsNew ==
  ASSUME NEW n, HandsOut(n, kept')
  PROVE  /\ b'.size = 0 /\ b'.offset = 0 /\ Bytes(b') >= n
         /\ \A f \in kept' \cup ToSet(s_buffers') : f.id # mine'
  BY DEF HandsOut, Elsewhere, ToSet

\* For any sizes and any number of buffers, BufferPool::acquire hands out an
\* empty buffer that is large enough and that nobody else has.
THEOREM RecycledIsNew == PoolSpec => RecycledAsNew
<1>1. PoolInv /\ [PoolNext]_poolVars =>
        /\ Keep =>
             /\ b'.size = 0 /\ b'.offset = 0 /\ Bytes(b') >= Bytes(b)
             /\ \A f \in kept' \cup ToSet(s_buffers') : f.id # mine'
        /\ \A size \in Sizes : Replace(size) =>
             /\ b'.size = 0 /\ b'.offset = 0 /\ Bytes(b') >= size
             /\ \A f \in kept' \cup ToSet(s_buffers') : f.id # mine'
  BY KeepHandsOut, ReplaceHandsOut, HandsOutAsNew
<1>2. QED
  BY <1>1, PoolInitOK, PoolStep, PTL DEF PoolSpec, RecycledAsNew

\* With buffers that come and go, acquire never hands out bytes the view still
\* holds.
THEOREM PooledNeverOverlap == PoolSpec => []AcquireDisjoint
<1>1. PoolInv => AcquireDisjoint
  BY DEF PoolInv, BufferInv
<1>2. QED
  BY <1>1, PoolInitOK, PoolStep, PTL DEF PoolSpec

\* With buffers that come and go, acquire stays inside the vector where three
\* bytes are spare and the view ends on a word.
THEOREM PooledFitsWithRoom == PoolSpec => []AcquireFitsIfRoomy
<1>1. PoolInv => AcquireFitsIfRoomy
  BY DEF PoolInv, BufferInv
<1>2. QED
  BY <1>1, PoolInitOK, PoolStep, PTL DEF PoolSpec
-----------------------------------------------------------------------------
(* The receive loops, provided that what arrives is at least six bytes     *)
(* shorter than what was asked for (the default mtu of 1492 leaves 20 on   *)
(* Ethernet).                                                              *)

Headroom == MaxDatagram + 6 <= Mtu

\* Between two receives three bytes are left behind the view, so that the
\* next acquire does not wrap around.
Spare ==
  phase # "receiving" =>
    End(m_buffer) + 3 <= Bytes(m_buffer) /\ m_buffer.size <= MaxDatagram

\* While a receive is outstanding they are left behind the longest datagram.
SpareBehind ==
  phase = "receiving" =>
    /\ m_buffer.acquiredOffset + PrePadding + MaxDatagram + 3
         <= Bytes(m_buffer)
    /\ Kind = "fd" => /\ m_buffer.offset = m_buffer.acquiredOffset
                      /\ m_buffer.size = Request

LoopInv == LoopTypeOK /\ Spare /\ SpareBehind /\ GrowthBounded

LEMMA LoopStarts == ASSUME Headroom PROVE LoopInit => LoopInv
<1> SUFFICES ASSUME LoopInit PROVE LoopInv
  OBVIOUS
<1>1. Request \in Nat /\ Request >= 6
  BY LoopAssumption DEF Request, Headroom
<1>2. Create(Request) \in BufferPrivate /\ Request <= Bytes(Create(Request))
  BY <1>1, CreateType
<1>3. Bytes(Create(Request)) <= Request + 3
  <2>1. 4 * ((Request + 3) \div 4) <= Request + 3
    BY <1>1, DivFour
  <2>2. QED
    BY <2>1 DEF Create, Bytes
<1>4. Create(Request).size = 0 /\ End(Create(Request)) = 0
  BY DEF Create, End
<1>5. QED
  BY <1>1, <1>2, <1>3, <1>4, LoopAssumption
     DEF LoopInit, LoopInv, LoopTypeOK, Spare, SpareBehind, GrowthBounded,
         Bytes,
         BufferPrivate

\* doReceive and doRead: the region lies in front of the view or behind it,
\* and the vector grows at most once around.
LEMMA DoReceiveInv ==
  ASSUME Headroom, LoopInv, DoReceive PROVE LoopInv'
<1> DEFINE a == Acquire(m_buffer, Request)
<1>1. /\ Request \in Nat /\ PrePadding \in Nat /\ Mtu \in Nat
      /\ MaxDatagram \in Nat /\ PrePadding + MaxDatagram + 6 <= Request
      /\ MaxDatagram <= Request
  BY LoopAssumption DEF Request, Headroom
<1>2. /\ m_buffer \in BufferPrivate /\ End(m_buffer) + 3 <= Bytes(m_buffer)
      /\ m_buffer.size <= MaxDatagram
  BY DEF LoopInv, LoopTypeOK, Spare, DoReceive
<1>3. Bytes(m_buffer) < SizeT /\ Bytes(m_buffer) <= 3 * Request + 3
  BY <1>1, <1>2, LoopAssumption, SizeTAssumption
     DEF LoopInv, GrowthBounded, Bytes, BufferPrivate, Request
<1>4. /\ a \in BufferPrivate
      /\ IF Request <= m_buffer.offset THEN a.acquiredOffset = 0
         ELSE a.acquiredOffset \in End(m_buffer) .. End(m_buffer) + 3
  BY <1>1, <1>2, AcquirePlaces
<1>5. /\ Request <= m_buffer.offset => a.words = m_buffer.words
      /\ Request > m_buffer.offset =>
           /\ End(m_buffer) + Request <= Bytes(a)
           /\ \/ Bytes(a) = Bytes(m_buffer)
              \/ Bytes(a) <= End(m_buffer) + Request + 3
  BY <1>1, <1>2, <1>3, AcquireBounds
<1>6. /\ m_buffer.offset \in Nat /\ m_buffer.size \in Nat
      /\ End(m_buffer) = m_buffer.offset + m_buffer.size
      /\ Bytes(m_buffer) \in Nat
      /\ Bytes(a) \in Nat /\ a.acquiredOffset \in Nat
  BY <1>2, <1>4 DEF BufferPrivate, End, Bytes
<1>7. Bytes(a) <= 3 * Request + 3
  <2>1. CASE Request <= m_buffer.offset
    BY <2>1, <1>3, <1>5 DEF Bytes
  <2>2. CASE Request > m_buffer.offset
    BY <2>2, <1>1, <1>2, <1>3, <1>5, <1>6
  <2>3. QED
    BY <2>1, <2>2, <1>1, <1>6
<1>8. a.acquiredOffset + PrePadding + MaxDatagram + 3 <= Bytes(a)
  <2>1. CASE Request <= m_buffer.offset
    BY <2>1, <1>1, <1>2, <1>4, <1>5, <1>6 DEF Bytes
  <2>2. CASE Request > m_buffer.offset
    BY <2>2, <1>1, <1>4, <1>5, <1>6
  <2>3. QED
    BY <2>1, <2>2, <1>1, <1>6
<1>9. CASE Kind = "udp"
  <2>1. m_buffer' = a /\ phase' = "receiving"
    BY <1>9 DEF DoReceive
  <2>2. QED
    BY <1>4, <1>7, <1>8, <1>9, <2>1
       DEF LoopInv, LoopTypeOK, Spare, SpareBehind, GrowthBounded
<1>10. CASE Kind = "fd"
  <2>1. m_buffer' = Commit(a, Request) /\ phase' = "receiving"
    BY <1>10 DEF DoReceive
  <2>2. /\ Commit(a, Request) \in BufferPrivate
        /\ Commit(a, Request).words = a.words
        /\ Commit(a, Request).offset = a.acquiredOffset
        /\ Commit(a, Request).size = Request
        /\ Commit(a, Request).acquiredOffset = a.acquiredOffset
    BY <1>1, <1>4 DEF Commit, BufferPrivate
  <2>3. QED
    BY <1>7, <1>8, <2>1, <2>2
       DEF LoopInv, LoopTypeOK, Spare, SpareBehind, GrowthBounded, Bytes
<1>11. QED
  BY <1>9, <1>10, LoopAssumption

\* onReceived and onRead: the view becomes what arrived.
LEMMA OnReceivedInv ==
  ASSUME Headroom, LoopInv, NEW n \in 0 .. MaxDatagram, OnReceived(n)
  PROVE  LoopInv'
<1>1. /\ n \in Nat /\ PrePadding \in Nat /\ n <= MaxDatagram
      /\ MaxDatagram \in Nat /\ Request \in Nat /\ MaxDatagram <= Request
  BY LoopAssumption DEF Request
<1>2. /\ m_buffer \in BufferPrivate
      /\ m_buffer.acquiredOffset + PrePadding + MaxDatagram + 3
           <= Bytes(m_buffer)
      /\ Kind = "fd" => /\ m_buffer.offset = m_buffer.acquiredOffset
                        /\ m_buffer.size = Request
      /\ Bytes(m_buffer) <= 3 * Request + 3
  BY DEF LoopInv, LoopTypeOK, SpareBehind, GrowthBounded, OnReceived
<1>3. CASE Kind = "udp"
  <2> DEFINE c == Commit(m_buffer, PrePadding + n)
             d == TrimFront(c, PrePadding)
  <2>1. PrePadding + n \in Nat
    BY <1>1
  <2>2. /\ c \in BufferPrivate /\ c.words = m_buffer.words
        /\ c.offset = m_buffer.acquiredOffset /\ c.size = PrePadding + n
    BY <1>2, <2>1 DEF Commit, BufferPrivate
  <2> HIDE DEF c
  <2>3. d \in BufferPrivate
    BY <1>1, <2>2, OpTypes
  <2>4. d.words = c.words /\ d.offset = c.offset + PrePadding /\ d.size = n
    BY <1>1, <2>2 DEF TrimFront, BufferPrivate
  <2>5. m_buffer' = d /\ phase' = "pushed"
    BY <1>3 DEF OnReceived, c
  <2> HIDE DEF d
  <2>6. End(d) + 3 <= Bytes(d) /\ Bytes(d) = Bytes(m_buffer)
    BY <1>1, <1>2, <2>2, <2>4 DEF End, Bytes, BufferPrivate
  <2>7. QED
    BY <1>1, <1>2, <2>3, <2>4, <2>5, <2>6
       DEF LoopInv, LoopTypeOK, Spare, SpareBehind, GrowthBounded
<1>4. CASE Kind = "fd"
  <2> DEFINE c == Shrink(m_buffer, n)
  <2>1. /\ c \in BufferPrivate /\ c.words = m_buffer.words
        /\ c.offset = m_buffer.acquiredOffset /\ c.size = n
    BY <1>1, <1>2, <1>4 DEF Shrink, BufferPrivate
  <2>2. m_buffer' = c /\ phase' = "pushed"
    BY <1>4 DEF OnReceived
  <2> HIDE DEF c
  <2>3. End(c) + 3 <= Bytes(c) /\ Bytes(c) = Bytes(m_buffer)
    BY <1>1, <1>2, <2>1 DEF End, Bytes, BufferPrivate
  <2>4. QED
    BY <1>1, <1>2, <2>1, <2>2, <2>3
       DEF LoopInv, LoopTypeOK, Spare, SpareBehind, GrowthBounded
<1>5. QED
  BY <1>3, <1>4, LoopAssumption

\* pushBuffer: whatever becomes of the buffer, its view moves no further back.
LEMMA PushedInv ==
  ASSUME Headroom, LoopInv, NEW fate \in Fates, Pushed(fate) PROVE LoopInv'
<1>1. /\ m_buffer \in BufferPrivate /\ End(m_buffer) + 3 <= Bytes(m_buffer)
      /\ m_buffer.size <= MaxDatagram /\ Bytes(m_buffer) <= 3 * Request + 3
      /\ phase' = "idle"
  BY DEF LoopInv, LoopTypeOK, Spare, GrowthBounded, Pushed
<1>2. /\ MaxDatagram \in Nat
      /\ Bytes(m_buffer) \in Nat /\ End(m_buffer) \in Nat
      /\ m_buffer.offset \in Nat /\ m_buffer.size \in Nat
      /\ m_buffer.words \in Nat
      /\ End(m_buffer) = m_buffer.offset + m_buffer.size
  BY <1>1, LoopAssumption DEF BufferPrivate, Bytes, End
<1>3. SUFFICES /\ m_buffer' \in BufferPrivate
               /\ m_buffer'.words = m_buffer.words
               /\ m_buffer'.offset + m_buffer'.size <= End(m_buffer)
               /\ m_buffer'.size <= m_buffer.size
  <2>1. /\ End(m_buffer') + 3 <= Bytes(m_buffer')
        /\ Bytes(m_buffer') = Bytes(m_buffer)
    BY <1>1, <1>2, <1>3 DEF End, Bytes, BufferPrivate
  <2>2. m_buffer'.size <= MaxDatagram
    BY <1>1, <1>2, <1>3 DEF BufferPrivate
  <2>3. QED
    BY <1>1, <1>3, <2>1, <2>2
       DEF LoopInv, LoopTypeOK, Spare, SpareBehind, GrowthBounded
<1>4. CASE fate = "cleared"
  <2>1. m_buffer' = [m_buffer EXCEPT !.offset = 0, !.size = 0]
    BY <1>4 DEF Pushed, Clear
  <2>2. m_buffer' = [words |-> m_buffer.words, size |-> 0, offset |-> 0,
              acquiredOffset |-> m_buffer.acquiredOffset]
    BY <1>1, <2>1 DEF BufferPrivate
  <2>3. m_buffer.acquiredOffset \in Nat
    BY <1>1 DEF BufferPrivate
  <2>4. QED
    BY <1>2, <2>2, <2>3 DEF BufferPrivate
<1>5. CASE fate = "replaced"
  <2>1. (4 * m_buffer.words + 3) \div 4 = m_buffer.words
    BY <1>2
  <2>2. m_buffer' = Create(Bytes(m_buffer))
    BY <1>5 DEF Pushed
  <2>3. Create(Bytes(m_buffer)) \in BufferPrivate
    BY <1>2, CreateType
  <2>4. QED
    BY <1>2, <2>1, <2>2, <2>3 DEF Create, Bytes
<1>6. CASE fate = "emptied"
  <2>1. m_buffer' = TrimFront(m_buffer, m_buffer.size)
    BY <1>6 DEF Pushed
  <2>2. TrimFront(m_buffer, m_buffer.size) \in BufferPrivate
    BY <1>1, <1>2, OpTypes
  <2>3. TrimFront(m_buffer, m_buffer.size)
          = [m_buffer EXCEPT !.offset = m_buffer.offset + m_buffer.size,
                             !.size = m_buffer.size - m_buffer.size]
    BY <1>1, <1>2 DEF TrimFront, BufferPrivate
  <2>4. QED
    BY <1>1, <1>2, <2>1, <2>2, <2>3 DEF BufferPrivate
<1>7. CASE fate = "ignored"
  BY <1>1, <1>2, <1>7 DEF Pushed
<1>8. QED
  BY <1>4, <1>5, <1>6, <1>7, LoopAssumption

LEMMA LoopStep ==
  ASSUME Headroom PROVE LoopInv /\ [LoopNext]_loopVars => LoopInv'
<1> SUFFICES ASSUME LoopInv, [LoopNext]_loopVars PROVE LoopInv'
  OBVIOUS
<1>1. CASE UNCHANGED loopVars
  BY <1>1 DEF loopVars, LoopInv, LoopTypeOK, Spare, SpareBehind, GrowthBounded
<1>2. QED
  BY <1>1, DoReceiveInv, OnReceivedInv, PushedInv DEF LoopNext

LEMMA LoopInvSuffices == LoopInv => DatagramFits /\ GrowthBounded
<1> SUFFICES ASSUME LoopInv PROVE DatagramFits /\ GrowthBounded
  OBVIOUS
<1>1. End(m_buffer) \in Nat /\ Bytes(m_buffer) \in Nat
  BY DEF LoopInv, LoopTypeOK, BufferPrivate, End, Bytes
<1>2. QED
  BY <1>1 DEF LoopInv, Spare, DatagramFits, GrowthBounded

\* With six bytes of headroom, what a UdpSource or an FdSource receives is
\* written inside its buffer, whatever became of the buffers before it.
THEOREM ReceivedInside == ASSUME Headroom PROVE LoopSpec => []DatagramFits
  BY LoopStarts, LoopStep, LoopInvSuffices, PTL DEF LoopSpec

\* Under the same condition the storage of a source whose buffers nobody
\* takes stays bounded.
THEOREM StorageBounded == ASSUME Headroom PROVE LoopSpec => []GrowthBounded
  BY LoopStarts, LoopStep, LoopInvSuffices, PTL DEF LoopSpec

\* A buffer that was cleared or is new begins at its front.
LEMMA ClearedFits ==
  ASSUME Headroom, LoopInv, Pushed("cleared") \/ Pushed("replaced")
  PROVE  LET a == Acquire(m_buffer', Request)
         IN  a.acquiredOffset + Request <= Bytes(a)
<1>1. /\ m_buffer \in BufferPrivate /\ End(m_buffer) + 3 <= Bytes(m_buffer)
      /\ Bytes(m_buffer) <= 3 * Request + 3
  BY DEF LoopInv, LoopTypeOK, Spare, GrowthBounded, Pushed
<1>2. /\ Bytes(m_buffer) \in Nat /\ End(m_buffer) \in Nat
      /\ m_buffer.words \in Nat
      /\ m_buffer.acquiredOffset \in Nat
  BY <1>1 DEF BufferPrivate, Bytes, End
<1>3. Request \in Nat /\ Request > 0 /\ SizeT > 3 * Request + 6
  BY LoopAssumption DEF Request
<1>4. /\ m_buffer' \in BufferPrivate /\ m_buffer'.words = m_buffer.words
      /\ m_buffer'.offset = 0 /\ m_buffer'.size = 0
  <2>1. CASE Pushed("cleared")
    <3>1. m_buffer' = [m_buffer EXCEPT !.offset = 0, !.size = 0]
      BY <2>1 DEF Pushed, Clear
    <3>2. m_buffer' = [words |-> m_buffer.words, size |-> 0, offset |-> 0,
                acquiredOffset |-> m_buffer.acquiredOffset]
      BY <1>1, <3>1 DEF BufferPrivate
    <3>3. QED
      BY <1>2, <3>2 DEF BufferPrivate
  <2>2. CASE Pushed("replaced")
    <3>1. (4 * m_buffer.words + 3) \div 4 = m_buffer.words
      BY <1>2
    <3>2. m_buffer' = Create(Bytes(m_buffer))
      BY <2>2 DEF Pushed
    <3>3. Create(Bytes(m_buffer)) \in BufferPrivate
      BY <1>2, CreateType
    <3>4. QED
      BY <3>1, <3>2, <3>3 DEF Create, Bytes
  <2>3. QED
    BY <2>1, <2>2
<1>5. PICK c \in BufferPrivate : c = m_buffer'
  BY <1>4
<1>6. End(c) = 0 /\ Bytes(c) = Bytes(m_buffer) /\ c.offset = 0
  BY <1>4, <1>5 DEF End, Bytes
<1>7. /\ Request <= Bytes(Acquire(c, Request))
      /\ \/ Acquire(c, Request).acquiredOffset + Request
              <= Bytes(Acquire(c, Request))
         \/ Acquire(c, Request).acquiredOffset = 0
  <2>1. End(c) + 3 <= Bytes(c) /\ Bytes(c) < SizeT /\ Request > c.offset
    BY <1>1, <1>2, <1>3, <1>6, SizeTAssumption
  <2>2. /\ End(c) + Request <= Bytes(Acquire(c, Request))
        /\ \/ Acquire(c, Request).acquiredOffset + Request
                <= Bytes(Acquire(c, Request))
           \/ Acquire(c, Request).acquiredOffset = End(c) + (End(c) % 4)
    BY <1>3, <2>1, AcquireBounds
  <2>3. QED
    BY <1>3, <1>6, <2>2
<1>8. QED
  BY <1>3, <1>5, <1>7

\* After a push that cleared or kept the buffer, the memory doReceive and
\* doRead hand out next lies inside the vector, up to its last byte.
THEOREM ClearedBufferHasRoom ==
  ASSUME Headroom PROVE LoopSpec => ClearedBufferFits
<1>1. LoopInv /\ [LoopNext]_loopVars
        => [Pushed("cleared") \/ Pushed("replaced")
              => LET a == Acquire(m_buffer', Request)
                 IN  a.acquiredOffset + Request <= Bytes(a)]_loopVars
  BY ClearedFits
<1>2. QED
  BY <1>1, LoopStarts, LoopStep, PTL DEF LoopSpec, ClearedBufferFits
=============================================================================
