----------------------------- MODULE MCWriteGate -----------------------------
(* Two commands of the CLI at a time, over a two-claim instance of the store: *)
(* ann's claim may be taken over by bob, whose own may wait for it.           *)
EXTENDS WriteGate, MCTaskClaims, TLC

CONSTANTS m, n

Commands == {m, n}

CommandSymmetry == Permutations(Commands)
=============================================================================
