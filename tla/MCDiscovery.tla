----------------------------- MODULE MCDiscovery -----------------------------
(* A small instance of Discovery: an original on the computer, on the      *)
(* reader an exact copy of it and a device copy made of it, which have     *)
(* nothing in common with each other, and two unrelated PDFs.              *)
EXTENDS Discovery, TLC

CONSTANTS original, exact, device, pdf, other

MCCopies == {original, exact, device, pdf, other}

MCPlaces == {"Local", "Kobo", "CrossPoint"}

MCPlaceOf == [c \in MCCopies |->
    IF c \in {original, pdf} THEN "Local" ELSE IF c = other THEN "Kobo" ELSE "CrossPoint"]

Variant(sha, resources) == [sha |-> sha, resources |-> resources]

Original == Variant("original", "text")
Device == Variant("device", "small")

MCVariants == {Original, Device, Variant("pdf", None), Variant("other", None)}

MCContents == [c \in MCCopies |->
    IF c = original THEN {Original, Device}
    ELSE IF c = exact THEN {Original}
    ELSE IF c = device THEN {Device}
    ELSE IF c = pdf THEN {Variant("pdf", None)}
    ELSE {Variant("other", None)}]

(* The PDF on the Kobo needs the whole budget, the other one next to none. *)
MCSize == [c \in MCCopies |-> IF c = other THEN 3 ELSE IF c = pdf THEN 0 ELSE 1]

MCReaders == [p \in MCPlaces |-> IF p = "Local" THEN 2 ELSE 1]
=============================================================================
