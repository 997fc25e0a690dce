------------------------------ MODULE Settings ------------------------------
(***************************************************************************)
(* The saved settings, what the command line adds to them, and the panel   *)
(* that changes them: apps/crossload/src/config.rs, the Tui of cli.rs and  *)
(* tui/settings.rs.  A value (a folder, an address, a switch) is a         *)
(* sequence of names; what an operator takes is a function of the keys.    *)
(***************************************************************************)
CONSTANTS
    None,           \* no value
    SavedOne,       \* --send-to or --copy-to without a value: the saved one
    Expand,         \* what a value that starts with ~/ stands for
    Refused,        \* the values that are refused, by key
    DefaultReader, RootFolder, StartedIn

(* A value that starts with ~/ stands for one that does not.               *)
ASSUME SettingsAssumption ==
    /\ SavedOne # None
    /\ None \notin DOMAIN Expand
    /\ \A value \in DOMAIN Expand : Expand[value] \notin DOMAIN Expand \union {None}

Folders == {"browse", "output", "device", "copy_to"}
Shown == Folders \union {"reader", "folder"}
Kept == {"kepub", "profile", "catalog"}
Keys == Shown \union Kept

NoSettings == [k \in Keys |-> None]

Or(value, otherwise) == IF value # None THEN value ELSE otherwise

Normal(s) ==
    [k \in Keys |-> IF k \in Folders /\ s[k] \in DOMAIN Expand THEN Expand[s[k]] ELSE s[k]]

Acceptable(s) == \A k \in Keys : Normal(s)[k] \notin Refused[k]

Merge(s, update) == [k \in Keys |-> Or(update[k], s[k])]

Unset(s, keys) == [k \in Keys |-> IF k \in keys THEN None ELSE s[k]]

-----------------------------------------------------------------------------
(* The places of a session: as given, or else as saved.  A reader that was *)
(* asked for excludes the saved card.                                      *)

Resolvable(asked, saved) ==
    \A k \in {"reader", "copy_to"} : asked[k] = SavedOne => saved[k] # None

Resolve(asked, saved) ==
    [k \in Shown |->
        IF asked[k] = SavedOne THEN saved[k]
        ELSE IF k = "folder" THEN Or(asked[k], saved[k]) ELSE asked[k]]

Fill(asked, saved) ==
    LET transfer == Resolve(asked, saved) IN
    [k \in Shown |->
        IF k = "copy_to" /\ transfer["reader"] # None THEN transfer[k]
        ELSE IF k = "folder" THEN Or(transfer[k], RootFolder)
        ELSE Or(transfer[k], saved[k])]

(* The interface browses where it was started, and imports where it        *)
(* browses, unless told otherwise.                                         *)
Session(asked, saved) ==
    LET filled == Fill(asked, saved)
        browse == Or(filled["browse"], StartedIn) IN
    [filled EXCEPT !["browse"] = browse, !["output"] = Or(@, browse)]

(* Settings the command line gave a value of its own. *)
Given(asked) == {k \in Shown : asked[k] \notin {None, SavedOne}}

(* Mutant: what was saved wins over what the command line gave. *)
MutantRestarted(asked, session, saved) == [k \in Shown |-> Or(saved[k], Session(asked, saved)[k])]

(* After a save, what was saved fills in what the command line left open.  *)
Restarted(asked, session, saved) == Session(asked, saved)

-----------------------------------------------------------------------------
(* The panel: a draft of the values in use, carried over into settings. *)

Panel(session) == [session EXCEPT !["reader"] = Or(@, DefaultReader)]

(* A books folder that was not there when the session started is refused   *)
(* until it is changed.                                                    *)
Bad(session, draft, booksOpened) ==
    {k \in {"browse", "output"} : draft[k] = None}
    \union {k \in {"browse"} : draft[k] = Panel(session)[k] /\ ~booksOpened}
    \union {k \in Shown : Normal([NoSettings EXCEPT ![k] = draft[k]])[k] \in Refused[k]}

(* Mutant: settings that the panel does not show are not carried over. *)
MutantPanelSettings(draft, saved) == [k \in Keys |-> IF k \in Shown THEN draft[k] ELSE None]

PanelSettings(draft, saved) == [k \in Keys |-> IF k \in Shown THEN draft[k] ELSE saved[k]]

=============================================================================
