----------------------------- MODULE MCVmwExecbuf -----------------------------
(* Instances of VmwExecbuf: one context, two surfaces that compete for the *)
(* device's ids, a compat or user shader, one user buffer.                 *)
EXTENDS VmwExecbuf
CONSTANTS c1, s1, s2, h1, h2, u1, q1, t1, t2

(* What user-space has: competing surfaces, pinned ones, a surface or a    *)
(* shader with a buffer of its own, queries; and what else happens:       *)
(* eviction of everything, pins, moves of buffers.                         *)
MCScenarios ==
  {{c1, s1, s2}, {s1, s2, "pin"}, {s1, u1, "move"}, {c1, h1, u1, "evict", "move"},
   {c1, s1, q1, "evict"}}

(* A context and its compat shaders. *)
MCShaders == {{c1, h1, h2}}
=============================================================================
