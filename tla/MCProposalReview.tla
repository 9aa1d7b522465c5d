-------------------------- MODULE MCProposalReview --------------------------
(* Two proposals that would launch identical work: the keys of one compete *)
(* with those of the other, and of its own retries.                        *)
EXTENDS ProposalReview, TLC
CONSTANTS tune, retune, sweep
MCProposal == {tune, retune}
MCContent == {sweep}
MCContentOf == tune :> sweep @@ retune :> sweep
Interchangeable == Permutations({tune, retune})
=============================================================================
