\* The sink with two buffers, three chunks, two configurations, and a client
\* with a tunnel; one fault anywhere; three event records.
CONSTANTS
  NumEvents = 3
  NumBuffers = 2
  MaxFaults = 1
  Users = {"hdmi", "tunnel"}
  Confs = {"c1", "c2"}
  Sizes = {1, 2}
  BytesPerSample = 2
  MaxLatency = 1
  MaxPushes = 3
SPECIFICATION Spec
INVARIANTS RecordsSuffice BufferOnce
PROPERTIES  CallsReturn PlaysInOrder
\* The client, having stopped or used its pushes, has nothing left to do.
CHECK_DEADLOCK FALSE
