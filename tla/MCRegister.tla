----------------------------- MODULE MCRegister -----------------------------
(***************************************************************************)
(* Values for TLC: the members of MCHolders, the platform's key and one    *)
(* holder or two.                                                          *)
(***************************************************************************)
EXTENDS Register, MCHolders

CONSTANTS r1, r2

MCAta == [w \in Holder |-> CHOOSE a \in Account : OwnerOf[a] = w]
MCBatches == {<<hal>>, <<hal, ida>>}
MCAdmission == {Status(FALSE, 1, {}), Status(FALSE, 2, {1})}
MCMayBoth == {{"thaw_holder", "set_holder_status"}}
MCSymmetryRequests == Permutations({r1, r2})
=============================================================================
