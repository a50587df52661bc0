\* Everything but a signal and I/O at rmmod, and for each temporal property the
\* largest environment without a signal in which it holds.
CONSTANT
  Environments = {
    {"resolve", "route", "connect", "missed", "evict", "server", "driver", "bad"},
    {"resolve", "driver", "io", "bad"},
    {"resolve", "route", "connect", "missed", "evict", "driver"},
    {"resolve", "route", "connect", "evict", "server", "driver", "io", "bad"}}
SPECIFICATION FairSpec
INVARIANTS
  
  FreedAfterDisconnect
PROPERTIES
  StateForward
  
  
  
CHECK_DEADLOCK FALSE
