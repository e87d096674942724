------------------------------ MODULE MCIdPool ------------------------------
(***************************************************************************)
(* IdPool for TLC, and the replay loop of the source as a fold, to check   *)
(* the declarative reading of the log that IdPool uses (and that the       *)
(* proofs reason about) against what the loop computes.                    *)
(***************************************************************************)
EXTENDS IdPool, SequencesExt

(* One turn of the loop of replay_transaction(): bits, values, max_used_.  *)
ReplayStep(s, r) ==
  IF r.op = "+"
  THEN [size |-> IF s.size <= r.off THEN r.off + 1 ELSE s.size,
        live |-> s.live \cup {r.off},
        val  |-> [s.val EXCEPT ![r.off] = r.val],
        hi   |-> IF s.hi <= r.off THEN r.off + 1 ELSE s.hi]
  ELSE [s EXCEPT !.live = @ \ {r.off}]

Replay(t, a) ==
  FoldLeft(ReplayStep, [size |-> InitSize, live |-> {}, val |-> a, hi |-> 0], t)

(* The loop of replay_transaction() computes what Restart installs: the    *)
(* same bitmap, the same values and the same mark, for every log a pool    *)
(* can have written.                                                       *)
ReplayLoopAgrees ==
  LET r == Replay(tran, arr)
  IN  /\ IsHi(tran, r.hi)
      /\ Reopened(Live(tran), r.hi) = [size |-> r.size, used |-> r.live, top |-> r.hi]
      /\ Restored(tran, arr) = r.val

(* The values are interchangeable. *)
ValueSymmetry == Permutations(Vals)
=============================================================================
