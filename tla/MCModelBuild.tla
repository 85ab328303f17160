---------------------------- MODULE MCModelBuild ----------------------------
(***************************************************************************)
(* One DeltaNet layer, one attention layer, the global image and the       *)
(* optional ones; the first checkpoint has one layer that fails its gate.  *)
(***************************************************************************)
EXTENDS ModelBuild

MCLayers == {2, 3}
MCHard   == {<<1, "q8", <<"layer", 2>>>>}

Plain == [index |-> 1, resume |-> FALSE, check |-> TRUE, verify |-> TRUE,
          cleanup |-> FALSE, tokenizer |-> TRUE, draft |-> FALSE, mtp |-> FALSE]
MCCommands ==
    {[Plain EXCEPT !.check = FALSE],
     [Plain EXCEPT !.resume = TRUE, !.cleanup = TRUE, !.mtp = TRUE],
     [Plain EXCEPT !.resume = TRUE, !.index = 2, !.draft = TRUE],
     [Plain EXCEPT !.resume = TRUE, !.index = 0, !.verify = FALSE,
                   !.tokenizer = FALSE]}
=============================================================================
