\* Datagrams at least six bytes shorter than the mtu, every fate of a buffer.
CONSTANTS
  SizeT = 4096
  Kind = "udp"
  PrePadding = 3
  Mtu = 40
  MaxDatagram = 34
  Fates = {"cleared", "replaced", "emptied", "ignored"}
SPECIFICATION LoopSpec
INVARIANTS DatagramFits 
PROPERTY ClearedBufferFits
