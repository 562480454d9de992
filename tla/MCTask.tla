------------------------------- MODULE MCTask -------------------------------
(* TaskBilling for TLC: one run for all kinds of tasks. *)
EXTENDS TaskBilling

CONSTANTS p1, p2, u1

MCPollers == {p1, p2}
MCFetchers == {u1}

\* A video task meets everything but the loss of its channel, which would end it unbilled
\* (TaskBulk.cfg); one its users query everything but errors; and a Suno task everything,
\* as long as its row is not reopened more than once.
Bounded ==
    CASE kind = "video" -> channel'
      [] kind = "realtime" -> faults' = 0
      [] kind = "suno" -> reopened' <= 1
=============================================================================
