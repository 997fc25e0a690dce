-------------------------- MODULE MCCrossPointSend --------------------------
(* Small instances of CrossPointSend.  The two books begin with the same   *)
(* block, as two editions of one book do, so one file can be an incomplete *)
(* copy of both.                                                           *)
EXTENDS CrossPointSend, TLC

CONSTANTS x, y, z

MCData == [b \in Books |-> IF b = "dune" THEN <<x, y>> ELSE <<x, z>>]

(* An incomplete copy, an unrelated file of the book's size, the book. *)
MCOwnContents == {<<x>>, <<z, z>>, <<x, y>>}

OneSlot == <<"herron", "dune.epub">>

MCRequests ==
    {[book |-> b, slot |-> OneSlot, flat |-> f, repair |-> r] :
        b \in Books, f \in {FALSE}, r \in BOOLEAN}
AllRequests ==
    {[book |-> b, slot |-> s, flat |-> f, repair |-> r] :
        b \in Books, s \in Slots, f \in BOOLEAN, r \in BOOLEAN}
MCStagingSymmetry == Permutations(Staging)
=============================================================================
