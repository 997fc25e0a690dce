-------------------------------- MODULE Lock --------------------------------
(***************************************************************************)
(* What a process asks for and what its lock holds: run-crossload's        *)
(* main.rs and lock.rs.  A path is a sequence of names; `there` is the set *)
(* of the folders that exist, with links followed.                         *)
(***************************************************************************)
EXTENDS Settings, SequencesExt

CONSTANTS
    Leads,          \* links: where they lead, by path
    Kobos,          \* the mounts that are a Kobo's when they are there
    UserMedia,      \* the user's own folders of mounted devices
    MediaRoots,     \* the folders above them
    Temporary,      \* the folder for temporary files
    Home, Xdg,      \* the user's folder, and what the environment says
    OnMac,          \* whether this is macOS
    Files,          \* the files there are, when their folders are there
    Port,           \* the port of each address
    ByNumber,       \* the addresses that are IP addresses
    Urls,           \* the addresses that can be a catalogue's
    Bookshelf       \* the catalogue when no other is given

Path == Seq(STRING) \ {<<>>}

ASSUME LockAssumption ==
    /\ None \notin Path
    /\ DOMAIN Leads \subseteq Path /\ Leads \in [DOMAIN Leads -> Path]
    /\ Kobos \union UserMedia \union Files \subseteq Path
    /\ {Temporary, Home} \subseteq Path
    /\ Xdg \in [{"config", "state", "cache", "data"} -> Path \union {None}]

(* That the names of crossload's own folders are strings is something the  *)
(* provers have to be told.                                                *)
ASSUME NamesAssumption ==
    {".config", ".cache", ".local", "state", "share", "Library", "Application Support", "Caches",
     "crossload", "xteink"} \subseteq STRING

Above(path) == {SubSeq(path, 1, n) : n \in 1..Len(path)}

Longest(paths) == CHOOSE path \in paths : \A other \in paths : Len(other) <= Len(path)

(* The path with a link in it followed. *)
Canonical(path) ==
    LET links == Above(path) \intersect DOMAIN Leads IN
    IF links = {} THEN path
    ELSE Leads[Longest(links)] \o SubSeq(path, Len(Longest(links)) + 1, Len(path))

Exists(path, there) == Canonical(path) \in there

(* A link above the path leads to nothing, such as a device that is not    *)
(* plugged in.                                                             *)
Dangling(path, there) == \E link \in Above(path) \intersect DOMAIN Leads : ~Exists(link, there)

Existing(path, there) == Longest({<<>>} \union {q \in Above(path) : Exists(q, there)})

Resolved(path, there) ==
    LET found == Existing(path, there) IN
    Canonical(found) \o SubSeq(path, Len(found) + 1, Len(path))

(* No folder can be made where a dangling link is. *)
Make(path, there) ==
    IF Dangling(path, there) THEN there ELSE there \union Above(Resolved(path, there))

(* The Kobos among what is mounted in the usual places. *)
KobosIn(there) == {Canonical(mount) : mount \in {k \in Kobos : Exists(k, there)}}

(* Books imported from a Kobo must not land back on it. *)
OutsideDevice(output, device, there) ==
    Exists(device, there) =>
        ~IsPrefix(Canonical(device), Canonical(Existing(output, there)))

-----------------------------------------------------------------------------
Grant(does, path) == [does |-> does, at |-> path]

(* A lock knows ports, and whether names are looked up; which of the hosts *)
(* may be talked to is the HTTP client's own scope.                        *)
Connect(port) == Grant("connect", <<port>>)

Connections(addresses) ==
    {Connect(Port[a]) : a \in addresses} \union {Grant("resolve", <<>>) : a \in addresses \ ByNumber}

(* A reader over Wi-Fi: its HTTP port, and that of its upload WebSocket.   *)
ReaderGrants(addresses) ==
    LET readers == addresses \intersect DOMAIN Port IN
    Connections(readers) \union {Connect("81") : r \in readers}

(* crossload's own folders, by the environment. *)
Own ==
    LET data(base, below, mac) ==
            IF OnMac THEN Home \o mac ELSE Or(Xdg[base], Home \o below) IN
    [settings |-> Or(Xdg["config"], Home \o <<".config">>) \o <<"crossload">>,
     history |-> data("state", <<".local", "state">>, <<"Library", "Application Support">>) \o <<"crossload">>,
     cache |-> data("cache", <<".cache">>, <<"Library", "Caches">>) \o <<"crossload">>,
     activation |-> data("data", <<".local", "share">>, <<"Library", "Application Support">>) \o <<"xteink">>]

Media == {Grant("write", path) : path \in UserMedia} \union {Grant("read", path) : path \in MediaRoots}

OwnGrants == {Grant("write", Own[name]) : name \in DOMAIN Own}

InterfaceGrants(session) ==
    {Grant("write", path) : path \in ({session[k] : k \in Folders} \ {None}) \union {Temporary}}
    \union ReaderGrants({session["reader"]})
    \union Media \union OwnGrants

(* A lock skips what is not there, and follows links. *)
Held(grants, there) ==
    LET paths == {g \in grants : g.does \in {"read", "write"}} IN
    (grants \ paths) \union {Grant(g.does, Canonical(g.at)) : g \in {g \in paths : Exists(g.at, there)}}

(* Mutant: the links of a path are not followed. *)
MutantCovers(held, grant, there) ==
    IF grant.does \in {"read", "write"}
    THEN \E h \in held : h.does \in {grant.does, "write"} /\ IsPrefix(h.at, grant.at)
    ELSE grant \in held

Covers(held, grant, there) ==
    IF grant.does \in {"read", "write"}
    THEN \E h \in held : h.does \in {grant.does, "write"} /\ IsPrefix(h.at, Resolved(grant.at, there))
    ELSE grant \in held

Uncovered(held, wanted, there) == {g \in wanted : ~Covers(held, g, there)}

-----------------------------------------------------------------------------
(* The lock of a command. A program is what was started: its command, what *)
(* it was given by key and what it was given besides, and whether it was   *)
(* to apply what it plans.                                                 *)

Adders == {"optimize", "get", "kobo import"}

OutputOf(program, saved) == Or(program.given["output"], saved["output"])

(* What a command line will write, so that its folders are made before the *)
(* lock: crossload's own, and the one that books are added to.             *)
Writes(program, saved) ==
    LET command == program.command
        output == OutputOf(program, saved) IN
    CASE command \in {"config set", "config unset"} -> [own |-> {"settings"}, output |-> None]
      [] command = "books" -> [own |-> {"cache"}, output |-> None]
      [] command = "sync" /\ program.apply -> [own |-> {"cache", "history"}, output |-> output]
      [] command = "sync" /\ ~program.apply -> [own |-> {"cache"}, output |-> None]
      [] command \in Adders -> [own |-> {}, output |-> output]
      [] command = "import" -> [own |-> {"activation"}, output |-> output]
      [] command = "adobe" -> [own |-> {"activation"}, output |-> None]
      [] command = "kobo sync" /\ program.apply -> [own |-> {}, output |-> output]
      [] command = "notes" /\ ~program.json -> [own |-> {}, output |-> program.given["output"]]
      [] OTHER -> [own |-> {}, output |-> None]

(* What was typed after the option of a key, and what is saved for it. *)
Named(program, saved, k) == {program.given[k], saved[k]} \ {None, SavedOne}

OutputAccepted(program, saved, output, there) ==
    \A device \in Named(program, saved, "device") : OutsideDevice(output, device, there)

(* Every word that was typed may be the name of a book, an ACSM request or *)
(* a catalogue.                                                            *)
Typed(program) == program.words \union ({program.given[k] : k \in Shown} \ {None, SavedOne})

(* A book is that one file. *)
BookGrants(words, there) ==
    {Grant("read", w) : w \in {w \in words \ Urls : Exists(Front(w), there)}}

(* A request is archived next to it when it is spent. *)
RequestGrants(words, there) ==
    {Grant("write", Front(w)) : w \in {w \in words \intersect Files : Exists(Front(w), there)}}

CatalogueGrants(words, saved) ==
    Connections(((words \union {saved["catalog"]}) \intersect Urls) \union {Bookshelf})

CommandGrants(program, saved, there) ==
    BookGrants(Typed(program), there)
    \union RequestGrants(Typed(program), there)
    \union CatalogueGrants(Typed(program), saved)
    \union {Grant("read", path) : path \in {program.from} \ {None}}
    \union {Grant("write", path) : path \in
        {StartedIn} \union Named(program, saved, "browse")
        \union {out \in Named(program, saved, "output") : OutputAccepted(program, saved, out, there)}
        \union Named(program, saved, "copy_to") \union Named(program, saved, "device")}
    \union ReaderGrants(Named(program, saved, "reader"))
    \union OwnGrants

(* The folders a command makes before it runs: those it writes to, the     *)
(* output only where it would be accepted.                                 *)
ToMake(program, saved, there) ==
    LET writes == Writes(program, saved) IN
    {Own[name] : name \in writes.own}
    \union {out \in {writes.output} \ {None} : OutputAccepted(program, saved, out, there)}

MadeFor(program, saved, there) ==
    there \union UNION {Make(path, there) : path \in ToMake(program, saved, there)}

=============================================================================
