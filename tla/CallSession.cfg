CONSTANTS
  Calls = {c1}
  Sockets = {s1}
  Sources = {mic, loopback}
  Tasks = {t1, t2}
  NoCall = none
  Cutoff = 0
  MaxLag = 1
  MaxAudio = 1
SPECIFICATION FairSpec
INVARIANTS
  AudioLedger
  EndAcksTruthful
PROPERTIES
  SweepIsJust
  CallsComeToRest
