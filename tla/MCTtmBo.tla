----------------------------- MODULE MCTtmBo -----------------------------
(* Two buffers and two casts.  With one validator, whose buffers evict each
   other, the shrinker, an owner and the work item are about; two validators
   with lists in both orders meet each other's reservations and those of a
   thread that grabs the buffers for the CPU. *)
EXTENDS TtmBo

CONSTANTS x, y, v1, v2, c1, s1, o1

MCLists == {<<x>>, <<y>>, <<x, y>>, <<y, x>>}

Evicting == [threads |-> {v1, s1, o1, Worker}, lists |-> {<<x>>, <<y>>},
             ids |-> 1]
Meeting == [threads |-> {v1, v2, c1}, lists |-> {<<x, y>>, <<y, x>>},
            ids |-> 2]

VARIABLE cast  \* who takes part in this behaviour, and the lists they submit

MCInit == Init /\ cast \in {Evicting, Meeting} /\ max_gmr_ids = cast.ids

Submits(t) == th'[t].pc = "retry" => th'[t].list \in cast.lists

MCNext ==
  /\ \/ \E t \in cast.threads : Steps(t) /\ Submits(t)
     \/ \E b \in Buffers : Signal(b)
  /\ UNCHANGED <<max_gmr_ids, cast>>

MCSpec == MCInit /\ [][MCNext]_<<vars, cast>>

\* The buffers are alike, and so are the validators.
Alike == Permutations(Buffers) \cup Permutations(Validators)
=============================================================================
