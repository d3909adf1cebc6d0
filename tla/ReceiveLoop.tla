----------------------------- MODULE ReceiveLoop ----------------------------
(***************************************************************************)
(* The buffer of a UdpSource and of an FdSource in their receive loops.    *)
(*                                                                         *)
(* The UDP loop acquires prePadding + mtu bytes, lets asio write a         *)
(* datagram behind the padding, commits what arrived and trims the padding *)
(* off; the descriptor loop acquires and commits a whole block, lets asio  *)
(* write to it and shrinks it to what arrived.  Both then push the buffer  *)
(* and start over with whatever the push left in it.                       *)
(***************************************************************************)
EXTENDS Buffer

CONSTANTS Kind,        \* "udp" or "fd"
          PrePadding,  \* UdpSource::Config::prePadding; 0 for "fd"
          Mtu,         \* UdpSource::Config::mtu, or the block size of "fd"
          MaxDatagram, \* the most that arrives at once
          Fates        \* what may become of a buffer that is pushed

ASSUME LoopAssumption ==
  /\ Kind \in {"udp", "fd"}
  /\ PrePadding \in Nat
  /\ Mtu \in Nat \ {0}
  /\ MaxDatagram \in 0 .. Mtu
  /\ Kind = "fd" => PrePadding = 0
  /\ Fates \subseteq {"cleared", "replaced", "emptied", "ignored"}
  /\ SizeT > 3 * (PrePadding + Mtu) + 6

VARIABLES
  m_buffer,  \* m_buffer
  phase      \* "idle": about to receive; "receiving": asio owns the region;
             \* "pushed": the buffer is with the chain

loopVars == <<m_buffer, phase>>

Request == PrePadding + Mtu

\* UdpSource::doReceive and FdSourcePrivate::doRead
DoReceive ==
  /\ phase = "idle"
  /\ m_buffer' = IF Kind = "udp" THEN Acquire(m_buffer, Request)
                 ELSE Commit(Acquire(m_buffer, Request), Request)
  /\ phase' = "receiving"

\* UdpSource::onReceived and FdSourcePrivate::onRead, up to pushBuffer.
OnReceived(bytes) ==
  /\ phase = "receiving"
  /\ Kind = "fd" => bytes > 0  \* end of file is an error
  /\ m_buffer' =
       IF Kind = "udp"
       THEN TrimFront(Commit(m_buffer, PrePadding + bytes), PrePadding)
       ELSE Shrink(m_buffer, bytes)
  /\ phase' = "pushed"

(***************************************************************************)
(* Source::pushBuffer and Node::process.  The last node of the chain       *)
(* clears the buffer; or a node kept it, and Buffer::create hands out one  *)
(* that is as large; or a node trimmed the view to nothing and the buffer  *)
(* goes no further; or the source is controlled and not started and the    *)
(* buffer is left as it is.                                                *)
(***************************************************************************)
Pushed(fate) ==
  /\ phase = "pushed"
  /\ m_buffer' = CASE fate = "cleared"  -> Clear(m_buffer)
                   [] fate = "replaced" -> Create(Bytes(m_buffer))
                   [] fate = "emptied"  -> TrimFront(m_buffer, m_buffer.size)
                   [] fate = "ignored"  -> m_buffer
  /\ phase' = "idle"

LoopInit == m_buffer = Create(Request) /\ phase = "idle"

LoopNext ==
  \/ DoReceive
  \/ \E bytes \in 0 .. MaxDatagram : OnReceived(bytes)
  \/ \E fate \in Fates : Pushed(fate)

LoopSpec == LoopInit /\ [][LoopNext]_loopVars
-----------------------------------------------------------------------------
\* Every variable has its type.
LoopTypeOK ==
  /\ m_buffer \in BufferPrivate
  /\ phase \in {"idle", "receiving", "pushed"}

\* A buffer the chain took to its end, or kept and replaced, has room for a
\* whole datagram again: the memory doReceive and doRead hand to asio next lies
\* inside the vector.
ClearedBufferFits ==
  [][Pushed("cleared") \/ Pushed("replaced")
       => LET a == Acquire(m_buffer', Request)
          IN  a.acquiredOffset + Request <= Bytes(a)]_loopVars

\* What actually arrived was written inside the vector, also when nobody
\* takes the buffers and each one is received next to the previous one.
DatagramFits == phase = "pushed" => End(m_buffer) <= Bytes(m_buffer)

\* The storage of a source that nobody listens to does not grow without
\* bound: the region alternates between the front and the back.
GrowthBounded == Bytes(m_buffer) <= 3 * Request + 3
=============================================================================
