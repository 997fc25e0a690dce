---------------------------- MODULE MCSessions ----------------------------
(***************************************************************************)
(* Two processes on one computer with a Kobo and a card.                   *)
(***************************************************************************)
EXTENDS Sessions

CONSTANTS p1, p2

MCHome == <<"home">>
MCBooks == <<"home", "books">>
MCImport == <<"home", "import">>
MCLinked == <<"home", "link", "import">>
MCKobo == <<"media", "kobo">>
MCCard == <<"mnt", "card">>
MCNamed == <<"crosspoint.local">>
MCByAddress == <<"192.168.1.2">>

MCProcs == {p1, p2}
MCLink == <<"home", "link">>
MCToKobo == <<"home", "books", "reader">>
MCOnKobo == <<"home", "books", "reader", "import">>
MCLeads == [link \in {MCLink, MCToKobo} |-> IF link = MCLink THEN <<"data">> ELSE MCKobo]
MCUserMedia == {<<"media">>}
MCMediaRoots == {<<"media">>, <<"mnt">>}
MCTemporary == <<"tmp">>
MCXdg == [base \in {"config", "state", "cache", "data"} |-> IF base = "state" THEN <<"state">> ELSE None]
MCRequest == <<"home", "downloads", "request">>
MCFiles == {MCRequest}
MCCatalogue == <<"https://books.example/feed">>
MCBookshelf == <<"https://bookshelf.example">>
MCUrls == {MCCatalogue, MCBookshelf}
MCPort == (MCCatalogue :> "443") @@ (MCBookshelf :> "443") @@ (MCNamed :> "80") @@ (MCByAddress :> "80")
MCKobos == {MCKobo}
MCByNumber == {MCByAddress}
MCExpand == <<"~", "import">> :> MCImport
MCRefused == [k \in Keys |-> IF k = "profile" THEN {<<"no such reader">>} ELSE {}]
MCDefaultReader == MCNamed
MCRootFolder == <<"/">>
MCStartedIn == MCBooks

MCWith(values) == [k \in Keys |-> IF k \in DOMAIN values THEN values[k] ELSE None]

MCFirstFiles ==
    {NoSettings,
     MCWith([output |-> <<"~", "import">>, device |-> MCKobo, reader |-> MCByAddress,
             copy_to |-> MCCard, kepub |-> <<"yes">>]),
     MCWith([profile |-> <<"no such reader">>])}

MCFirstThere == {{<<"home">>, MCBooks, Front(MCRequest), <<"data">>, <<"tmp">>, <<"mnt">>, MCCard}}

MCPluggable == {MCKobo}

MCSymmetry == Permutations(MCProcs)

MCProgram(command, given, apply) ==
    [command |-> command, given |-> MCWith(given), apply |-> apply, json |-> FALSE,
     words |-> {}, from |-> None]

MCNothing == [k \in {} |-> None]

MCPrograms ==
    {MCProgram("tui", MCNothing, FALSE),
     MCProgram("tui", [reader |-> SavedOne, output |-> MCImport], FALSE),
     MCProgram("config set", [copy_to |-> MCCard, kepub |-> <<"yes">>], FALSE),
     MCProgram("config unset", [reader |-> None, device |-> <<"any">>], FALSE),
     MCProgram("books", MCNothing, FALSE),
     MCProgram("sync", [output |-> MCImport], TRUE),
     [MCProgram("import", MCNothing, FALSE) EXCEPT !.words = {MCRequest}]}

MCDrafts ==
    [k \in Shown |->
        CASE k = "output" -> {MCLinked, MCOnKobo}
          [] k = "copy_to" -> {MCCard}
          [] k = "reader" -> {MCNamed}
          [] OTHER -> {}]

MCItems == <<"local book", "reader book">>
MCStamped == {"local book"}

=============================================================================
