----------------------------- MODULE MCCommands -----------------------------
(***************************************************************************)
(* An instance of Commands.  The Kobo has a store book that is encrypted   *)
(* (ex, which decrypts to x), another book with its title and author (z),  *)
(* and between them one outside the store, which is the same encrypted     *)
(* file, the book as it was decrypted before (x), or a repacked edition of *)
(* it (y: other bytes, the same resources, another title), or it has a PDF *)
(* instead of both.  The reader can hold a partial copy of x (px) or the   *)
(* whole x under another name.                                             *)
(***************************************************************************)
EXTENDS Commands, TLC

CONSTANTS p1, p2, bought, loose, other, request, download,
          ex, x, dx, px, y, dy, z, dz, n, pdf, ax, ay, author, resourceX, resourceD, dir, front, stored

MCContents == {ex, x, dx, px, y, dy, z, dz, n, pdf}
MCIds == {bought, loose, other}
MCByTitle == (bought :> 1) @@ (loose :> 2) @@ (other :> 3)
MCOrigins == MCIds \union {request, download}

MCNamed == [c \in MCContents |-> IF c \in {ex, x} THEN bought ELSE None]
MCPlain == [c \in MCContents |-> IF c = ex THEN x ELSE None]
MCFolderOf == [path \in {ax, ay} |-> author]
MCPathOf == [c \in MCContents |-> IF c \in {y, dy, n, pdf} THEN ay ELSE ax]
MCDeviceCopy == [c \in MCContents |->
    CASE c = x -> dx [] c = y -> dy [] c = z -> dz [] OTHER -> c]
MCResource == [c \in MCContents |->
    CASE c \in {x, y} -> resourceX [] c \in {dx, dy} -> resourceD [] OTHER -> None]

Sync(apply, repair, exclude) ==
    [name |-> "sync", apply |-> apply, repair |-> repair, exclude |-> exclude, pass |-> TRUE, origin |-> None]
One(name, origin, repair, pass) ==
    [name |-> name, apply |-> TRUE, repair |-> repair, exclude |-> {}, pass |-> pass, origin |-> origin]

MCCommandSet ==
    {Sync(FALSE, FALSE, {}), Sync(TRUE, FALSE, {}), Sync(FALSE, TRUE, {}), Sync(TRUE, TRUE, {}),
     Sync(TRUE, FALSE, {other}),
     One("import", bought, FALSE, FALSE), One("get", download, FALSE, TRUE),
     One("acsm", request, FALSE, FALSE), One("import", request, FALSE, TRUE), One("send", other, FALSE, TRUE)}

Holding(atAuthor, atX, atY) ==
    [place \in {author, ax, ay} |->
        CASE place = author -> atAuthor [] place = ax -> atX [] OTHER -> atY]

MCTrees == {Holding(None, None, None), Holding(dir, px, None), Holding(dir, None, x)}
MCLocals == {[o \in MCOrigins |-> None]}
MCKobos == {[id \in MCIds |-> CASE id = bought -> ex [] id = loose -> c [] OTHER -> z] :
                c \in {ex, x, y}}
PdfKobos == {[id \in MCIds |-> CASE id = bought -> ex [] id = loose -> None [] OTHER -> pdf]}
AnyKobos == MCKobos \union PdfKobos
MCOrdered == [r \in {request} |-> n]
MCOffered == [d \in {download} |-> front]
MCAnswer == [link \in {front, stored} |-> IF link = front THEN stored ELSE n]
MCOwnerMoves ==
    {<<"tree", ax, None>>, <<"tree", ax, x>>, <<"local", bought, z>>, <<"kobo", loose, None>>}
MCBegins == {<<px, dx>>}
Twice == Permutations({p1, p2})
=============================================================================
