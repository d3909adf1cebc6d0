\* Two sources; every kind of sink, and every filter before PortAudioSink.
CONSTANTS
  Sources = {a, b}
  Sinks = {"portaudio", "tcp", "file", "app"}
  Settings = {1, 2}
  Rates = {44100, 48000}
  BuiltRate = 44100
  MaxPushes = 2
  MaxControls = 3
  MaxFaults = 1
SPECIFICATION Spec
INVARIANTS OutInOrder  OneSetting
 
CHECK_DEADLOCK FALSE
