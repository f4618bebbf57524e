----------------------------- MODULE MCTtmLock -----------------------------
(* One lock with every mode the library offers: a reader, two writers (who
   may downgrade, so that up to three threads read at once and an
   interrupted writer finds another one asleep), a vt taker and a
   suspender. *)
EXTENDS TtmLock

CONSTANTS r1, w1, w2, v1, s1

MCReaders == {r1}
MCWriters == {w1, w2}
MCVters == {v1}
MCSuspenders == {s1}

=============================================================================
