--------------------------- MODULE Catalog_proofs ---------------------------
(* That merging, one step at a time, keeps the catalog's books whole and   *)
(* apart.                                                                  *)
EXTENDS Catalog, TLAPS

Share(a, b) == Digests(a) \intersect Digests(b) # {}

(* Each reading is in one place: in one book, in the one that is being put *)
(* together, or still to be merged.                                        *)
Apart ==
    /\ \A one, other \in books : one # other => one \intersect other = {}
    /\ \A book \in books : book \intersect combined = {} /\ book \intersect inbox = {}
    /\ combined \intersect inbox = {}

CatalogInv ==
    /\ CatalogTypeOK
    /\ arrived = (UNION books) \union combined \union inbox
    /\ Apart
    /\ \A r, s \in arrived : r.name = s.name => r = s
    /\ TwinsAreOneBook
    /\ BooksHangTogether
    /\ HangsTogether(combined)

(* matches() finds exactly the copies that share a digest. *)
LEMMA MatchesAreShared ==
    ASSUME NEW a, NEW b
    PROVE  Matches(a, b) <=> Share(a, b)
  <1>1. ASSUME Matches(a, b) PROVE Share(a, b)
    <2>1. PICK v \in a.variants, w \in b.variants :
            v.sha = w.sha \/ (v.resources # None /\ v.resources = w.resources)
      BY <1>1 DEF Matches
    <2>2. CASE v.sha = w.sha
      BY <2>1, <2>2 DEF Share, Digests
    <2>3. CASE v.resources # None /\ v.resources = w.resources
      BY <2>1, <2>3 DEF Share, Digests
    <2> QED
      BY <2>1, <2>2, <2>3
  <1>2. ASSUME Share(a, b) PROVE Matches(a, b)
    <2>1. PICK d : d \in Digests(a) /\ d \in Digests(b)
      BY <1>2 DEF Share
    <2>2. CASE \E v \in a.variants : d = <<"bytes", v.sha>>
      BY <2>1, <2>2 DEF Digests, Matches
    <2>3. CASE \E v \in a.variants : v.resources # None /\ d = <<"resources", v.resources>>
      BY <2>1, <2>3 DEF Digests, Matches
    <2> QED
      BY <2>1, <2>2, <2>3 DEF Digests
  <1> QED
    BY <1>1, <1>2

(* Two books that share a copy's digest hang together as one. *)
LEMMA JoinedHangTogether ==
    ASSUME NEW S, NEW T, HangsTogether(S), HangsTogether(T),
           \E a \in S, b \in T : Share(a, b)
    PROVE  HangsTogether(S \union T)
  <1> SUFFICES ASSUME NEW part \in SUBSET (S \union T), part # {}, part # S \union T
               PROVE  \E a \in part, b \in (S \union T) \ part : Share(a, b)
    BY DEF HangsTogether, Share
  <1>1. CASE part \intersect S # {} /\ part \intersect S # S
    <2> DEFINE half == part \intersect S
    <2>1. half \in SUBSET S /\ half # {} /\ half # S
      BY <1>1
    <2>2. \E a \in half, b \in S \ half : Share(a, b)
      <3> HIDE DEF half
      <3> QED
        BY <2>1 DEF HangsTogether, Share
    <2> QED
      BY <2>2
  <1>2. CASE part \intersect T # {} /\ part \intersect T # T
    <2> DEFINE half == part \intersect T
    <2>1. half \in SUBSET T /\ half # {} /\ half # T
      BY <1>2
    <2>2. \E a \in half, b \in T \ half : Share(a, b)
      <3> HIDE DEF half
      <3> QED
        BY <2>1 DEF HangsTogether, Share
    <2> QED
      BY <2>2
  <1>3. CASE part \intersect S = S /\ part \intersect T = {}
    BY <1>3
  <1>4. CASE part \intersect S = {} /\ part \intersect T = T
    <2>1. PICK a \in S, b \in T : Share(a, b)
      OBVIOUS
    <2>2. Share(b, a)
      BY <2>1 DEF Share
    <2> QED
      BY <1>4, <2>1, <2>2
  <1> QED
    BY <1>1, <1>2, <1>3, <1>4

(* The empty set of books. *)
LEMMA InitKeepsCatalog ==
    ASSUME CatalogInit
    PROVE  CatalogInv
  BY DEF CatalogInit, CatalogInv, CatalogTypeOK, Apart, TwinsAreOneBook, BooksHangTogether,
         HangsTogether

(* Readings of copies that were not read before come in between merges. *)
LEMMA BringKeepsCatalog ==
    ASSUME CatalogInv, Idle,
           NEW readings \in SUBSET Readings,
           \A r \in readings, s \in readings \union arrived : r.name = s.name => r = s,
           readings \intersect arrived = {},
           Bring(readings)
    PROVE  CatalogInv'
  <1>1. CatalogTypeOK'
    BY DEF CatalogInv, CatalogTypeOK, Bring
  <1>2. (arrived = (UNION books) \union combined \union inbox)'
    BY DEF CatalogInv, Bring, Idle
  <1>3. Apart'
    BY DEF CatalogInv, Apart, Bring, Idle
  <1>4. \A r, s \in arrived' : r.name = s.name => r = s
    BY DEF CatalogInv, Bring
  <1>5. (TwinsAreOneBook /\ BooksHangTogether /\ HangsTogether(combined))'
    BY DEF CatalogInv, Bring, TwinsAreOneBook, BooksHangTogether, HangsTogether, Digests
  <1> QED
    BY <1>1, <1>2, <1>3, <1>4, <1>5 DEF CatalogInv

LEMMA MergeKeepsCatalog ==
    ASSUME CatalogInv, Merge
    PROVE  CatalogInv'
  <1>1. PICK r \in inbox : combined = {} /\ combined' = {r} /\ inbox' = inbox \ {r}
                           /\ books' = books /\ arrived' = arrived
    BY DEF Merge
  <1>2. CatalogTypeOK'
    BY <1>1 DEF CatalogInv, CatalogTypeOK
  <1>3. (arrived = (UNION books) \union combined \union inbox)'
    BY <1>1 DEF CatalogInv
  <1>4. Apart'
    BY <1>1 DEF CatalogInv, Apart
  <1>5. HangsTogether(combined)'
    BY <1>1 DEF HangsTogether
  <1>6. (TwinsAreOneBook /\ BooksHangTogether)'
    BY <1>1 DEF CatalogInv, TwinsAreOneBook, BooksHangTogether, HangsTogether, Digests
  <1> QED
    BY <1>1, <1>2, <1>3, <1>4, <1>5, <1>6 DEF CatalogInv

LEMMA AbsorbKeepsCatalog ==
    ASSUME CatalogInv, Absorb
    PROVE  CatalogInv'
  <1>1. PICK old \in books : Meets(old, combined) /\ books' = books \ {old}
                             /\ combined' = combined \union old
                             /\ inbox' = inbox /\ arrived' = arrived
    BY DEF Absorb
  <1>2. CatalogTypeOK'
    BY <1>1 DEF CatalogInv, CatalogTypeOK
  <1>3. (arrived = (UNION books) \union combined \union inbox)'
    BY <1>1 DEF CatalogInv
  <1>4. Apart'
    BY <1>1 DEF CatalogInv, Apart
  <1>5. HangsTogether(old \union combined)
    <2>1. \E a \in old, b \in combined : Share(a, b)
      BY <1>1, MatchesAreShared DEF Meets
    <2> QED
      BY <2>1, JoinedHangTogether DEF CatalogInv, BooksHangTogether
  <1>6. HangsTogether(combined)'
    <2>1. combined' = old \union combined
      BY <1>1
    <2> QED
      BY <1>5, <2>1 DEF HangsTogether, Digests
  <1>7. TwinsAreOneBook'
    BY <1>1 DEF CatalogInv, TwinsAreOneBook, Digests
  <1>8. BooksHangTogether'
    <2>1. \A book : HangsTogether(book)' <=> HangsTogether(book)
      BY DEF HangsTogether, Digests
    <2> QED
      BY <1>1, <2>1 DEF CatalogInv, BooksHangTogether
  <1> QED
    BY <1>1, <1>2, <1>3, <1>4, <1>6, <1>7, <1>8 DEF CatalogInv

LEMMA PushKeepsCatalog ==
    ASSUME CatalogInv, Push
    PROVE  CatalogInv'
  <1>1. /\ combined # {}
        /\ \A old \in books : ~Meets(old, combined)
        /\ books' = books \union {combined}
        /\ combined' = {} /\ inbox' = inbox /\ arrived' = arrived
    BY DEF Push
  <1>2. CatalogTypeOK'
    BY <1>1 DEF CatalogInv, CatalogTypeOK
  <1>3. (arrived = (UNION books) \union combined \union inbox)'
    BY <1>1 DEF CatalogInv
  <1>4. Apart'
    BY <1>1 DEF CatalogInv, Apart
  <1>5. \A old \in books : \A a \in old, b \in combined :
            Digests(a) \intersect Digests(b) = {} /\ Digests(b) \intersect Digests(a) = {}
    BY <1>1, MatchesAreShared DEF Meets, Share
  <1>6. TwinsAreOneBook'
    BY <1>1, <1>5 DEF CatalogInv, TwinsAreOneBook, Digests
  <1>7. BooksHangTogether'
    <2>1. \A book : HangsTogether(book)' <=> HangsTogether(book)
      BY DEF HangsTogether, Digests
    <2> QED
      BY <1>1, <2>1 DEF CatalogInv, BooksHangTogether
  <1>8. HangsTogether(combined)'
    BY <1>1 DEF HangsTogether
  <1> QED
    BY <1>1, <1>2, <1>3, <1>4, <1>6, <1>7, <1>8 DEF CatalogInv

(* What leaves the catalog alone. *)
LEMMA UnchangedCatalogKeeps ==
    ASSUME CatalogInv, UNCHANGED catalogVars
    PROVE  CatalogInv'
  <1>1. inbox' = inbox /\ combined' = combined /\ books' = books /\ arrived' = arrived
    BY DEF catalogVars
  <1>2. CatalogTypeOK' /\ Apart'
    BY <1>1 DEF CatalogInv, CatalogTypeOK, Apart
  <1>3. TwinsAreOneBook'
    BY <1>1 DEF CatalogInv, TwinsAreOneBook
  <1>4. BooksHangTogether'
    BY <1>1 DEF CatalogInv, BooksHangTogether, HangsTogether
  <1>5. HangsTogether(combined)'
    BY <1>1 DEF CatalogInv, HangsTogether
  <1> QED
    BY <1>1, <1>2, <1>3, <1>4, <1>5 DEF CatalogInv

(* The invariant says what the catalog promises. *)
LEMMA CatalogPromises ==
    ASSUME CatalogInv
    PROVE  TwinsAreOneBook /\ BooksHangTogether /\ NothingIsLost
  BY DEF CatalogInv, Apart, NothingIsLost
=============================================================================
