------------------------- MODULE SuggestionsProofs -------------------------
(***************************************************************************)
(* Proofs about Suggestions.  A moderator's request decides on a snapshot  *)
(* and the catalog has moved on.  What a decision depends on, it writes:   *)
(* the suggestion, whose status it changes; the album, whose revision it   *)
(* moves on; and the entry of every reference that it adds to the album.   *)
(* So a request that commits does to the catalog what it did to its        *)
(* snapshot, and it is enough that a decision keeps a sound catalog sound. *)
(***************************************************************************)
EXTENDS Suggestions, TransactionProofs, FiniteSetTheorems

(***************************************************************************)
(* The invariant                                                           *)
(***************************************************************************)
\* The documents of a catalog have their types.
TypedCatalog(s) ==
  /\ DOMAIN s = CatalogDocs
  /\ \A x \in Submission : s[SubmissionDoc(x)] \in SubmissionType
  /\ \A a \in Album : s[AlbumDoc(a)] \in [rev: 0..MaxCatalog, refs: SUBSET Ref]
  /\ \A r \in Ref : s[RefDoc(r)] \in Album \cup {NoAlbum}

\* A suggestion fits its status, and what an approval promised is in the album.
Whole(k) ==
  /\ k.status = "absent" => k.rev = 0
  /\ k.status # "absent" => k.rev \in Revision
  /\ k.type = "catalog_correction" => k.target \in Album /\ k.base > 0
  /\ k.status # "approved" => k.published = "no"
Kept(s, k) ==
  k.status = "approved" =>
    k.album \in Album /\ s[AlbumDoc(k.album)].rev > 0 /\ k.applied \subseteq s[AlbumDoc(k.album)].refs
Told(s, x) ==
  /\ s[SubmissionDoc(x)].status \in Decision => s[NoteDoc(x, s[SubmissionDoc(x)].rev, s[SubmissionDoc(x)].status)]
  /\ \A n \in Revision, st \in Decision \cap Settled :
       s[NoteDoc(x, n, st)] => s[SubmissionDoc(x)].status = st /\ s[SubmissionDoc(x)].rev = n

\* The index has the references of the albums; an album that was not made has none.
Indexed(s, a) ==
  /\ s[AlbumDoc(a)].rev = 0 => s[AlbumDoc(a)].refs = {}
  /\ \A r \in Ref : s[RefDoc(r)] = a <=> r \in s[AlbumDoc(a)].refs

\* A moderator's request made its album if, and only if, it approved one suggestion as new.
Creations(s, a) ==
  { x \in Submission : s[SubmissionDoc(x)].published = "created" /\ s[SubmissionDoc(x)].album = a }
MadeOnce(s, a) ==
  /\ s[AlbumDoc(a)].rev > 0 <=> Creations(s, a) # {}
  /\ \A x, y \in Creations(s, a) : x = y

SoundCatalog(s) ==
  /\ TypedCatalog(s)
  /\ \A x \in Submission : Whole(s[SubmissionDoc(x)]) /\ Kept(s, s[SubmissionDoc(x)]) /\ Told(s, x)
  /\ \A a \in Album : Indexed(s, a)
  /\ \A a \in Moderator : MadeOnce(s, a)

\* What a catalog never loses: albums, their references, and what contributors were told.
Grown(s, t) ==
  /\ \A a \in Album : /\ s[AlbumDoc(a)].rev > 0 => t[AlbumDoc(a)].rev > 0
                      /\ s[AlbumDoc(a)].refs \subseteq t[AlbumDoc(a)].refs
  /\ \A x \in Submission, n \in Revision, st \in Decision : s[NoteDoc(x, n, st)] => t[NoteDoc(x, n, st)]

\* What a request that is under way carries.
Request ==
  [op: {"approve"}, sub: Submission, rev: 0..MaxRevision, choice: Album \cup {NoAlbum},
   confirm: BOOLEAN, found: SUBSET Ref, applied: BOOLEAN]
  \cup [op: {"command"}, sub: Submission, to: {"needs_changes", "rejected", "duplicate"}, of: Submission,
        rev: 0..MaxRevision]
Carried(k) ==
  /\ k.pc \in {"idle", "composed", "looked", "planned", "read"}
  /\ k.pc \in {"composed", "looked", "planned"} => k.sub \in Submission
  /\ k.pc = "composed" => k.as \in SubmissionType /\ k.as.status = "pending" /\ Whole(k.as)
  /\ k.pc = "read" => k.req \in Request

SuggestionsInv ==
  /\ Transactions /\ SoundCatalog(db)
  /\ DOMAIN call = Client /\ \A c \in Client : Carried(call[c])
  /\ \A x \in OpenClients : tx[x].req \in Request /\ SoundCatalog(tx[x].snap) /\ Grown(tx[x].snap, db)

(***************************************************************************)
(* Documents                                                               *)
(***************************************************************************)
\* Every named document is one of the catalog.
LEMMA DocsAreDocs ==
  /\ \A x \in Submission : SubmissionDoc(x) \in CatalogDocs
  /\ \A a \in Album : AlbumDoc(a) \in CatalogDocs
  /\ \A r \in Ref : RefDoc(r) \in CatalogDocs
  /\ \A x \in Submission, n \in Revision, st \in Decision : NoteDoc(x, n, st) \in CatalogDocs
BY DEF CatalogDocs, SubmissionDocs, AlbumDocs, RefDocs, NoteDocs

\* Documents of different kinds, or of different names, are different.
LEMMA DocsApart ==
  /\ \A x, y : SubmissionDoc(x) = SubmissionDoc(y) => x = y
  /\ \A a, b : AlbumDoc(a) = AlbumDoc(b) => a = b
  /\ \A r, q : RefDoc(r) = RefDoc(q) => r = q
  /\ \A x, n, st, y, m, su : NoteDoc(x, n, st) = NoteDoc(y, m, su) => x = y /\ n = m /\ st = su
  /\ \A x, a : SubmissionDoc(x) # AlbumDoc(a) /\ SubmissionDoc(x) # RefDoc(a) /\ AlbumDoc(x) # RefDoc(a)
  /\ \A x, n, st, y : /\ NoteDoc(x, n, st) # SubmissionDoc(y) /\ NoteDoc(x, n, st) # AlbumDoc(y)
                      /\ NoteDoc(x, n, st) # RefDoc(y)
BY DEF SubmissionDoc, AlbumDoc, RefDoc, NoteDoc

\* A decision gives the suggestion x the value k and tells its contributor.
Settles(s, n, x, k) ==
  /\ n[SubmissionDoc(x)] = k /\ n[NoteDoc(x, k.rev, k.status)] = TRUE
  /\ \A y \in Submission \ {x} : n[SubmissionDoc(y)] = s[SubmissionDoc(y)]
  /\ \A y \in Submission, m \in Revision, st \in Decision :
       y # x \/ m # k.rev \/ st # k.status => n[NoteDoc(y, m, st)] = s[NoteDoc(y, m, st)]
\* It publishes the album a with these references, or leaves the albums alone.
Enters(s, n, a, rev, refs) ==
  /\ n[AlbumDoc(a)] = [rev |-> rev, refs |-> refs] /\ \A r \in refs : n[RefDoc(r)] = a
  /\ \A b \in Album \ {a} : n[AlbumDoc(b)] = s[AlbumDoc(b)]
  /\ \A r \in Ref \ refs : n[RefDoc(r)] = s[RefDoc(r)]
LeavesAlbums(s, n) ==
  /\ \A b \in Album : n[AlbumDoc(b)] = s[AlbumDoc(b)]
  /\ \A r \in Ref : n[RefDoc(r)] = s[RefDoc(r)]

\* The catalog s in which the suggestion x became k.
Became(s, x, k) == [s EXCEPT ![SubmissionDoc(x)] = k]

\* What Announced makes of it.
LEMMA AnnouncedSettles ==
  ASSUME NEW s, DOMAIN s = CatalogDocs, NEW x \in Submission, NEW k, k.rev \in Revision, k.status \in Decision,
         NEW n, n = Announced(Became(s, x, k), x, k.status)
  PROVE  DOMAIN n = CatalogDocs /\ Settles(s, n, x, k) /\ LeavesAlbums(s, n)
<1> DEFINE u == Became(s, x, k)
<1>1. SubmissionDoc(x) \in CatalogDocs /\ NoteDoc(x, k.rev, k.status) \in CatalogDocs
  BY DocsAreDocs
<1>2. DOMAIN u = CatalogDocs /\ u[SubmissionDoc(x)] = k /\ \A d \in CatalogDocs \ {SubmissionDoc(x)} : u[d] = s[d]
  BY <1>1 DEF Became
<1>3. n = [u EXCEPT ![NoteDoc(x, u[SubmissionDoc(x)].rev, k.status)] = TRUE]
  BY DEF Announced
<1> HIDE DEF u
<1>4. n = [u EXCEPT ![NoteDoc(x, k.rev, k.status)] = TRUE]
  BY <1>2, <1>3
<1>5. /\ DOMAIN n = CatalogDocs /\ n[NoteDoc(x, k.rev, k.status)] = TRUE
      /\ \A d \in CatalogDocs \ {NoteDoc(x, k.rev, k.status)} : n[d] = u[d]
  BY <1>1, <1>2, <1>4
<1>6. n[SubmissionDoc(x)] = k
  <2>1. SubmissionDoc(x) # NoteDoc(x, k.rev, k.status)
    BY DocsApart
  <2> QED BY <2>1, <1>1, <1>2, <1>5
<1>7. \A d \in CatalogDocs : d # SubmissionDoc(x) /\ d # NoteDoc(x, k.rev, k.status) => n[d] = s[d]
  BY <1>2, <1>5
<1>8. ASSUME NEW y \in Submission \ {x} PROVE n[SubmissionDoc(y)] = s[SubmissionDoc(y)]
  <2>1. SubmissionDoc(y) \in CatalogDocs /\ SubmissionDoc(y) # SubmissionDoc(x)
    BY DocsAreDocs, DocsApart
  <2>2. SubmissionDoc(y) # NoteDoc(x, k.rev, k.status)
    BY DocsApart
  <2> QED BY <2>1, <2>2, <1>7
<1>9. ASSUME NEW y \in Submission, NEW m \in Revision, NEW st \in Decision, y # x \/ m # k.rev \/ st # k.status
      PROVE  n[NoteDoc(y, m, st)] = s[NoteDoc(y, m, st)]
  <2>1. NoteDoc(y, m, st) \in CatalogDocs /\ NoteDoc(y, m, st) # SubmissionDoc(x)
    BY DocsAreDocs, DocsApart
  <2>2. NoteDoc(y, m, st) # NoteDoc(x, k.rev, k.status)
    BY <1>9, DocsApart
  <2> QED BY <2>1, <2>2, <1>7
<1>10. LeavesAlbums(s, n)
  <2>1. ASSUME NEW b \in Album PROVE n[AlbumDoc(b)] = s[AlbumDoc(b)]
    <3>1. AlbumDoc(b) \in CatalogDocs /\ AlbumDoc(b) # SubmissionDoc(x) /\ AlbumDoc(b) # NoteDoc(x, k.rev, k.status)
      BY DocsAreDocs, DocsApart
    <3> QED BY <3>1, <1>7
  <2>2. ASSUME NEW r \in Ref PROVE n[RefDoc(r)] = s[RefDoc(r)]
    <3>1. RefDoc(r) \in CatalogDocs /\ RefDoc(r) # SubmissionDoc(x) /\ RefDoc(r) # NoteDoc(x, k.rev, k.status)
      BY DocsAreDocs, DocsApart
    <3> QED BY <3>1, <1>7
  <2> QED BY <2>1, <2>2 DEF LeavesAlbums
<1> QED BY <1>5, <1>6, <1>8, <1>9, <1>10 DEF Settles

\* What Entered makes of a catalog.
LEMMA EnteredEnters ==
  ASSUME NEW s, DOMAIN s = CatalogDocs, NEW a \in Album, NEW rev, NEW refs, refs \subseteq Ref,
         NEW n, n = Entered(s, a, rev, refs)
  PROVE  /\ DOMAIN n = CatalogDocs /\ Enters(s, n, a, rev, refs)
         /\ \A y \in Submission : n[SubmissionDoc(y)] = s[SubmissionDoc(y)]
         /\ \A y \in Submission, m \in Revision, st \in Decision : n[NoteDoc(y, m, st)] = s[NoteDoc(y, m, st)]
<1> DEFINE R == { RefDoc(r) : r \in refs }
<1>1. /\ DOMAIN n = CatalogDocs
      /\ \A d \in CatalogDocs : n[d] = IF d = AlbumDoc(a) THEN [rev |-> rev, refs |-> refs] ELSE IF d \in R THEN a ELSE s[d]
  BY DEF Entered
<1>2. \A r \in refs : RefDoc(r) \in R /\ RefDoc(r) # AlbumDoc(a)
  BY DocsApart
<1>3. \A r \in Ref \ refs : RefDoc(r) \notin R /\ RefDoc(r) # AlbumDoc(a)
  BY DocsApart
<1>4. \A b \in Album : AlbumDoc(b) \notin R /\ (b # a => AlbumDoc(b) # AlbumDoc(a))
  BY DocsApart
<1>5. \A y : SubmissionDoc(y) \notin R /\ SubmissionDoc(y) # AlbumDoc(a)
  BY DocsApart
<1>6. \A y, m, st : NoteDoc(y, m, st) \notin R /\ NoteDoc(y, m, st) # AlbumDoc(a)
  BY DocsApart
<1> HIDE DEF R
<1> QED BY <1>1, <1>2, <1>3, <1>4, <1>5, <1>6, DocsAreDocs DEF Enters

(***************************************************************************)
(* What a decision makes of a sound catalog                                *)
(***************************************************************************)
\* The album that a decision published, or none: what it needs of the catalog.
MayEnter(s, a, rev, refs) ==
  /\ a \in Album /\ rev \in 1..MaxCatalog /\ refs \subseteq Ref /\ s[AlbumDoc(a)].refs \subseteq refs
  /\ \A r \in refs : s[RefDoc(r)] \in {NoAlbum, a}

\* An album that is entered in the index with its references leaves it sound.
LEMMA EntriesAreIndexed ==
  ASSUME NEW s, SoundCatalog(s), NEW n, NEW a, NEW rev, NEW refs, MayEnter(s, a, rev, refs), Enters(s, n, a, rev, refs)
  PROVE  /\ \A b \in Album : Indexed(n, b) /\ n[AlbumDoc(b)] \in [rev: 0..MaxCatalog, refs: SUBSET Ref]
         /\ \A b \in Album : /\ s[AlbumDoc(b)].rev > 0 => n[AlbumDoc(b)].rev > 0
                             /\ s[AlbumDoc(b)].refs \subseteq n[AlbumDoc(b)].refs
         /\ \A r \in Ref : n[RefDoc(r)] \in Album \cup {NoAlbum}
<1>1. n[AlbumDoc(a)].rev = rev /\ n[AlbumDoc(a)].refs = refs /\ rev > 0
  BY DEF Enters, MayEnter
<1>2. n[AlbumDoc(a)] \in [rev: 0..MaxCatalog, refs: SUBSET Ref]
  BY SuggestionsAssumption DEF Enters, MayEnter
<1>3. Indexed(n, a)
  <2> SUFFICES ASSUME NEW r \in Ref PROVE n[RefDoc(r)] = a <=> r \in refs
    BY <1>1 DEF Indexed
  <2>1. CASE r \in refs
    BY <2>1 DEF Enters
  <2>2. CASE r \notin refs
    <3>1. n[RefDoc(r)] = s[RefDoc(r)] /\ r \notin s[AlbumDoc(a)].refs
      BY <2>2 DEF Enters, MayEnter
    <3>2. Indexed(s, a)
      BY DEF SoundCatalog, MayEnter
    <3> QED BY <2>2, <3>1, <3>2 DEF Indexed
  <2> QED BY <2>1, <2>2
<1>4. ASSUME NEW b \in Album, b # a
      PROVE  Indexed(n, b) /\ n[AlbumDoc(b)] = s[AlbumDoc(b)] /\ s[AlbumDoc(b)] \in [rev: 0..MaxCatalog, refs: SUBSET Ref]
  <2>1. n[AlbumDoc(b)] = s[AlbumDoc(b)] /\ Indexed(s, b)
    BY <1>4 DEF Enters, SoundCatalog
  <2>2. s[AlbumDoc(b)] \in [rev: 0..MaxCatalog, refs: SUBSET Ref]
    BY DEF SoundCatalog, TypedCatalog
  <2>3. ASSUME NEW r \in Ref PROVE n[RefDoc(r)] = b <=> s[RefDoc(r)] = b
    <3>1. CASE r \in refs
      BY <3>1, <1>4, SuggestionsAssumption DEF Enters, MayEnter, Album
    <3>2. CASE r \notin refs
      BY <3>2 DEF Enters
    <3> QED BY <3>1, <3>2
  <2> QED BY <2>1, <2>2, <2>3 DEF Indexed
<1>5. a \in Album /\ s[AlbumDoc(a)].refs \subseteq refs
  BY DEF MayEnter
<1>6. \A r \in Ref : n[RefDoc(r)] \in Album \cup {NoAlbum}
  BY <1>5 DEF Enters, SoundCatalog, TypedCatalog
<1> QED BY <1>1, <1>2, <1>3, <1>4, <1>5, <1>6

\* A decision about the pending suggestion x, as far as the suggestions go.
Decides(s, n, x, k) ==
  /\ x \in Submission /\ s[SubmissionDoc(x)].status = "pending"
  /\ k \in SubmissionType /\ k.status \in Decision /\ k.rev = s[SubmissionDoc(x)].rev /\ Whole(k)
  /\ DOMAIN n = CatalogDocs /\ Settles(s, n, x, k)

\* What a decision needs of the albums that it leaves.
AlbumsAreSound(s, n, k) ==
  /\ \A b \in Album : Indexed(n, b) /\ n[AlbumDoc(b)] \in [rev: 0..MaxCatalog, refs: SUBSET Ref]
  /\ \A b \in Album : /\ s[AlbumDoc(b)].rev > 0 => n[AlbumDoc(b)].rev > 0
                      /\ s[AlbumDoc(b)].refs \subseteq n[AlbumDoc(b)].refs
  /\ \A r \in Ref : n[RefDoc(r)] \in Album \cup {NoAlbum}
  /\ \A a \in Moderator : MadeOnce(n, a)
  /\ Kept(n, k)

\* The contributors of a catalog with a decision know of it, and of no other.
LEMMA DecisionsAreTold ==
  ASSUME NEW s, SoundCatalog(s), NEW n, NEW x, NEW k, Decides(s, n, x, k), NEW y \in Submission
  PROVE  Told(n, y)
<1>1. CASE y # x
  <2>1. n[SubmissionDoc(y)] = s[SubmissionDoc(y)]
    BY <1>1 DEF Decides, Settles
  <2>2. \A m \in Revision, st \in Decision : n[NoteDoc(y, m, st)] = s[NoteDoc(y, m, st)]
    BY <1>1 DEF Decides, Settles
  <2>3. Told(s, y) /\ Whole(s[SubmissionDoc(y)]) /\ s[SubmissionDoc(y)] \in SubmissionType
    BY DEF SoundCatalog, TypedCatalog
  <2>4. s[SubmissionDoc(y)].status \in Decision => s[SubmissionDoc(y)].rev \in Revision
    BY <2>3 DEF Whole, Decision
  <2> QED BY <2>1, <2>2, <2>3, <2>4 DEF Told
<1>2. CASE y = x
  <2>1. n[SubmissionDoc(x)] = k /\ n[NoteDoc(x, k.rev, k.status)] = TRUE
    BY DEF Decides, Settles
  <2>2. ASSUME NEW m \in Revision, NEW st \in Decision \cap Settled, n[NoteDoc(x, m, st)]
        PROVE  k.status = st /\ k.rev = m
    <3> SUFFICES ASSUME m # k.rev \/ st # k.status PROVE FALSE
      OBVIOUS
    <3>1. s[NoteDoc(x, m, st)]
      BY <2>2 DEF Decides, Settles
    <3>2. s[SubmissionDoc(x)].status = st
      BY <1>2, <3>1 DEF SoundCatalog, Told
    <3> QED BY <3>2 DEF Decides, Decision, Settled
  <2> QED BY <1>2, <2>1, <2>2 DEF Told
<1> QED BY <1>1, <1>2

\* A decision keeps a sound catalog sound if the albums that it leaves are.
LEMMA DecisionsKeepCatalogs ==
  ASSUME NEW s, SoundCatalog(s), NEW n, NEW x, NEW k, Decides(s, n, x, k), AlbumsAreSound(s, n, k)
  PROVE  SoundCatalog(n) /\ Grown(s, n)
<1>1. TypedCatalog(n)
  <2>1. ASSUME NEW y \in Submission PROVE n[SubmissionDoc(y)] \in SubmissionType
    <3>1. CASE y = x
      BY <3>1 DEF Decides, Settles
    <3>2. CASE y # x
      BY <3>2 DEF Decides, Settles, SoundCatalog, TypedCatalog
    <3> QED BY <3>1, <3>2
  <2> QED BY <2>1 DEF Decides, AlbumsAreSound, TypedCatalog
<1>2. ASSUME NEW y \in Submission PROVE Whole(n[SubmissionDoc(y)]) /\ Kept(n, n[SubmissionDoc(y)])
  <2>1. CASE y = x
    BY <2>1 DEF Decides, Settles, AlbumsAreSound
  <2>2. CASE y # x
    <3>1. n[SubmissionDoc(y)] = s[SubmissionDoc(y)]
      BY <2>2 DEF Decides, Settles
    <3>2. Whole(s[SubmissionDoc(y)]) /\ Kept(s, s[SubmissionDoc(y)])
      BY DEF SoundCatalog
    <3>3. Kept(n, s[SubmissionDoc(y)])
      BY <3>2 DEF Kept, AlbumsAreSound
    <3> QED BY <3>1, <3>2, <3>3
  <2> QED BY <2>1, <2>2
<1>3. SoundCatalog(n)
  BY <1>1, <1>2, DecisionsAreTold DEF SoundCatalog, AlbumsAreSound
<1>4. ASSUME NEW y \in Submission, NEW m \in Revision, NEW st \in Decision, s[NoteDoc(y, m, st)] PROVE n[NoteDoc(y, m, st)]
  <2>1. CASE y = x /\ m = k.rev /\ st = k.status
    BY <2>1 DEF Decides, Settles
  <2>2. CASE ~(y = x /\ m = k.rev /\ st = k.status)
    BY <2>2, <1>4 DEF Decides, Settles
  <2> QED BY <2>1, <2>2
<1>5. Grown(s, n)
  BY <1>4 DEF Grown, AlbumsAreSound
<1> QED BY <1>3, <1>5

\* Only a decision that creates an album changes what was made of the suggestions.
LEMMA OthersMakeNothing ==
  ASSUME NEW s, SoundCatalog(s), NEW n, NEW x, NEW k, Decides(s, n, x, k), NEW a \in Moderator,
         k.published = "created" => k.album # a,
         s[AlbumDoc(a)].rev > 0 <=> n[AlbumDoc(a)].rev > 0
  PROVE  MadeOnce(n, a)
<1>1. s[SubmissionDoc(x)].published = "no" /\ n[SubmissionDoc(x)] = k /\ x \in Submission
  BY DEF Decides, Settles, SoundCatalog, Whole
<1>2. Creations(n, a) = Creations(s, a)
  <2> SUFFICES ASSUME NEW y \in Submission PROVE y \in Creations(n, a) <=> y \in Creations(s, a)
    BY DEF Creations
  <2>1. CASE y = x
    BY <2>1, <1>1 DEF Creations
  <2>2. CASE y # x
    BY <2>2 DEF Creations, Decides, Settles
  <2> QED BY <2>1, <2>2
<1>3. MadeOnce(s, a)
  BY DEF SoundCatalog
<1> QED BY <1>2, <1>3 DEF MadeOnce

\* A decision that leaves the albums alone, and names one only if it exists.
LEMMA PlainDecisions ==
  ASSUME NEW s, SoundCatalog(s), NEW n, NEW x, NEW k, Decides(s, n, x, k), LeavesAlbums(s, n),
         k.published # "created",
         k.status = "approved" => k.album \in Album /\ s[AlbumDoc(k.album)].rev > 0 /\ k.applied = {}
  PROVE  SoundCatalog(n) /\ Grown(s, n)
<1>1. \A b \in Album : n[AlbumDoc(b)] = s[AlbumDoc(b)] /\ s[AlbumDoc(b)] \in [rev: 0..MaxCatalog, refs: SUBSET Ref]
  BY DEF LeavesAlbums, SoundCatalog, TypedCatalog
<1>7. \A r \in Ref : n[RefDoc(r)] \in Album \cup {NoAlbum}
  BY DEF LeavesAlbums, SoundCatalog, TypedCatalog
<1>2. \A b \in Album : Indexed(n, b)
  BY <1>1 DEF SoundCatalog, Indexed, LeavesAlbums
<1>3. Moderator \subseteq Album
  BY DEF Album
<1>4. \A a \in Moderator : MadeOnce(n, a)
  BY <1>1, <1>3, OthersMakeNothing
<1>5. Kept(n, k)
  BY <1>1 DEF Kept
<1>6. AlbumsAreSound(s, n, k)
  BY <1>1, <1>2, <1>4, <1>5, <1>7 DEF AlbumsAreSound
<1> QED BY <1>6, DecisionsKeepCatalogs

\* A decision that adds its references to an album that exists.
LEMMA CorrectingDecisions ==
  ASSUME NEW s, SoundCatalog(s), NEW n, NEW x, NEW k, Decides(s, n, x, k), k.published # "created",
         NEW rev, NEW refs, MayEnter(s, k.album, rev, refs), Enters(s, n, k.album, rev, refs),
         s[AlbumDoc(k.album)].rev > 0, k.applied \subseteq refs
  PROVE  SoundCatalog(n) /\ Grown(s, n)
<1>1. /\ \A b \in Album : Indexed(n, b) /\ n[AlbumDoc(b)] \in [rev: 0..MaxCatalog, refs: SUBSET Ref]
      /\ \A b \in Album : /\ s[AlbumDoc(b)].rev > 0 => n[AlbumDoc(b)].rev > 0
                          /\ s[AlbumDoc(b)].refs \subseteq n[AlbumDoc(b)].refs
      /\ \A r \in Ref : n[RefDoc(r)] \in Album \cup {NoAlbum}
  BY EntriesAreIndexed
<1>2. k.album \in Album /\ rev > 0 /\ n[AlbumDoc(k.album)].rev = rev /\ n[AlbumDoc(k.album)].refs = refs
  BY DEF MayEnter, Enters
<1>3. \A b \in Album : s[AlbumDoc(b)].rev > 0 <=> n[AlbumDoc(b)].rev > 0
  BY <1>1, <1>2 DEF Enters
<1>4. \A a \in Moderator : MadeOnce(n, a)
  BY <1>3, OthersMakeNothing DEF Album
<1>5. Kept(n, k)
  BY <1>2 DEF Kept
<1>6. AlbumsAreSound(s, n, k)
  BY <1>1, <1>4, <1>5 DEF AlbumsAreSound
<1> QED BY <1>6, DecisionsKeepCatalogs

\* A decision that creates the album of the moderator's request.
LEMMA CreatingDecisions ==
  ASSUME NEW s, SoundCatalog(s), NEW n, NEW x, NEW k, Decides(s, n, x, k), k.published = "created",
         k.album \in Moderator, s[AlbumDoc(k.album)].rev = 0,
         NEW refs, MayEnter(s, k.album, 1, refs), Enters(s, n, k.album, 1, refs), k.applied \subseteq refs
  PROVE  SoundCatalog(n) /\ Grown(s, n)
<1> DEFINE c == k.album
<1>1. /\ \A b \in Album : Indexed(n, b) /\ n[AlbumDoc(b)] \in [rev: 0..MaxCatalog, refs: SUBSET Ref]
      /\ \A b \in Album : /\ s[AlbumDoc(b)].rev > 0 => n[AlbumDoc(b)].rev > 0
                          /\ s[AlbumDoc(b)].refs \subseteq n[AlbumDoc(b)].refs
      /\ \A r \in Ref : n[RefDoc(r)] \in Album \cup {NoAlbum}
  BY EntriesAreIndexed
<1>2. c \in Album /\ n[AlbumDoc(c)].rev = 1 /\ n[AlbumDoc(c)].refs = refs
  BY DEF MayEnter, Enters
<1>3. ASSUME NEW a \in Moderator, a # c PROVE MadeOnce(n, a)
  <2>1. n[AlbumDoc(a)] = s[AlbumDoc(a)]
    BY <1>3 DEF Enters, Album
  <2> QED BY <1>3, <2>1, OthersMakeNothing
<1>4. MadeOnce(n, c)
  <2>1. Creations(s, c) = {}
    BY DEF SoundCatalog, MadeOnce
  <2>2. n[SubmissionDoc(x)] = k /\ x \in Submission
    BY DEF Decides, Settles
  <2>3. Creations(n, c) = {x}
    <3>1. x \in Creations(n, c)
      BY <2>2 DEF Creations
    <3>2. ASSUME NEW y \in Creations(n, c), y # x PROVE FALSE
      <4>1. n[SubmissionDoc(y)] = s[SubmissionDoc(y)] /\ y \in Submission
        BY <3>2 DEF Creations, Decides, Settles
      <4> QED BY <4>1, <2>1, <3>2 DEF Creations
    <3> QED BY <3>1, <3>2
  <2> QED BY <2>3, <1>2 DEF MadeOnce
<1>5. Kept(n, k)
  BY <1>2 DEF Kept
<1>6. \A a \in Moderator : MadeOnce(n, a)
  BY <1>3, <1>4
<1>7. AlbumsAreSound(s, n, k)
  BY <1>1, <1>5, <1>6 DEF AlbumsAreSound
<1> QED BY <1>7, DecisionsKeepCatalogs

(***************************************************************************)
(* A request does to the catalog what it did to its snapshot               *)
(***************************************************************************)
\* A decision that is about to be committed, on a snapshot of the catalog.
Deciding(c, t, x, k) ==
  /\ Transactions /\ SoundCatalog(db) /\ c \in OpenClients
  /\ SoundCatalog(tx[c].snap) /\ Grown(tx[c].snap, db)
  /\ Committed(c, t, Changed(tx[c].snap, t))
  /\ Decides(tx[c].snap, t, x, k)

\* What the request changed was as it saw it, and is as it made it; the rest is as it was.
LEMMA CommittedDocs ==
  ASSUME NEW c, NEW t, NEW x, NEW k, Deciding(c, t, x, k), NEW d \in CatalogDocs
  PROVE  /\ t[d] # tx[c].snap[d] => db[d] = tx[c].snap[d] /\ db'[d] = t[d]
         /\ t[d] = tx[c].snap[d] => db'[d] = db[d]
<1> DEFINE W == Changed(tx[c].snap, t)
<1>1. DOMAIN db = CatalogDocs /\ DOMAIN tx[c].snap = CatalogDocs
  BY DEF Deciding, SoundCatalog, TypedCatalog
<1>2. d \in W <=> t[d] # tx[c].snap[d]
  BY <1>1 DEF Changed
<1>3. Committed(c, t, W)
  BY DEF Deciding
<1> HIDE DEF W
<1> QED BY <1>1, <1>2, <1>3 DEF Committed

\* It decides on the suggestion that the catalog has.
LEMMA SerialDecisions ==
  ASSUME NEW c, NEW t, NEW x, NEW k, Deciding(c, t, x, k)
  PROVE  db[SubmissionDoc(x)] = tx[c].snap[SubmissionDoc(x)] /\ Decides(db, db', x, k)
<1> DEFINE s == tx[c].snap
<1>1. /\ x \in Submission /\ s[SubmissionDoc(x)].status = "pending" /\ k \in SubmissionType /\ k.status \in Decision
      /\ k.rev = s[SubmissionDoc(x)].rev /\ Whole(k) /\ Settles(s, t, x, k)
  BY DEF Deciding, Decides
<1>2. \A d \in CatalogDocs : /\ t[d] # s[d] => db[d] = s[d] /\ db'[d] = t[d]
                             /\ t[d] = s[d] => db'[d] = db[d]
  BY CommittedDocs
<1>3. DOMAIN db' = CatalogDocs /\ Grown(s, db)
  BY DEF Deciding, Committed, SoundCatalog, TypedCatalog
<1> HIDE DEF s
<1>4. db[SubmissionDoc(x)] = s[SubmissionDoc(x)] /\ db'[SubmissionDoc(x)] = k
  <2>1. t[SubmissionDoc(x)] = k /\ k # s[SubmissionDoc(x)] /\ SubmissionDoc(x) \in CatalogDocs
    BY <1>1, DocsAreDocs DEF Settles, Decision
  <2> QED BY <2>1, <1>2
<1>5. k.rev \in Revision
  BY <1>1 DEF Whole, Decision
<1>6. db'[NoteDoc(x, k.rev, k.status)] = TRUE
  <2> DEFINE d == NoteDoc(x, k.rev, k.status)
  <2>1. d \in CatalogDocs /\ t[d] = TRUE
    BY <1>1, <1>5, DocsAreDocs DEF Settles
  <2>2. CASE t[d] # s[d]
    BY <2>1, <2>2, <1>2
  <2>3. CASE t[d] = s[d]
    <3>1. s[d] /\ d \in NoteDocs
      BY <2>1, <2>3, <1>1, <1>5 DEF NoteDocs
    <3>2. db[d]
      BY <3>1, <1>1, <1>3, <1>5 DEF Grown
    <3>3. db'[d]
      BY <3>2, <2>1, <2>3, <1>2
    <3> QED BY <3>3
  <2> QED BY <2>2, <2>3
<1>7. ASSUME NEW y \in Submission \ {x} PROVE db'[SubmissionDoc(y)] = db[SubmissionDoc(y)]
  BY <1>1, <1>2, DocsAreDocs DEF Settles
<1>8. ASSUME NEW y \in Submission, NEW m \in Revision, NEW st \in Decision, y # x \/ m # k.rev \/ st # k.status
      PROVE  db'[NoteDoc(y, m, st)] = db[NoteDoc(y, m, st)]
  BY <1>1, <1>2, <1>8, DocsAreDocs DEF Settles
<1>9. Settles(db, db', x, k)
  BY <1>4, <1>6, <1>7, <1>8 DEF Settles
<1> QED BY <1>1, <1>3, <1>4, <1>9 DEF Decides, s

\* It leaves the albums alone if it left those of its snapshot alone.
LEMMA SerialLeaving ==
  ASSUME NEW c, NEW t, NEW x, NEW k, Deciding(c, t, x, k), LeavesAlbums(tx[c].snap, t)
  PROVE  LeavesAlbums(db, db')
BY CommittedDocs, DocsAreDocs DEF LeavesAlbums

\* It enters the album that the catalog has, and whose references nobody else has taken.
LEMMA SerialEntries ==
  ASSUME NEW c, NEW t, NEW x, NEW k, Deciding(c, t, x, k), NEW a, NEW rev, NEW refs,
         MayEnter(tx[c].snap, a, rev, refs), Enters(tx[c].snap, t, a, rev, refs), rev # tx[c].snap[AlbumDoc(a)].rev
  PROVE  db[AlbumDoc(a)] = tx[c].snap[AlbumDoc(a)] /\ MayEnter(db, a, rev, refs) /\ Enters(db, db', a, rev, refs)
<1> DEFINE s == tx[c].snap
<1>1. /\ a \in Album /\ rev \in 1..MaxCatalog /\ refs \subseteq Ref /\ s[AlbumDoc(a)].refs \subseteq refs
      /\ \A r \in refs : s[RefDoc(r)] \in {NoAlbum, a}
  BY DEF MayEnter
<1>2. \A d \in CatalogDocs : /\ t[d] # s[d] => db[d] = s[d] /\ db'[d] = t[d]
                             /\ t[d] = s[d] => db'[d] = db[d]
  BY CommittedDocs
<1>3. /\ t[AlbumDoc(a)] = [rev |-> rev, refs |-> refs] /\ \A r \in refs : t[RefDoc(r)] = a
      /\ \A b \in Album \ {a} : t[AlbumDoc(b)] = s[AlbumDoc(b)]
      /\ \A r \in Ref \ refs : t[RefDoc(r)] = s[RefDoc(r)]
      /\ rev # s[AlbumDoc(a)].rev
  BY DEF Enters
<1>4. Indexed(s, a) /\ Indexed(db, a) /\ a # NoAlbum
  BY <1>1, SuggestionsAssumption DEF Deciding, SoundCatalog, Album
<1> HIDE DEF s
<1>5. db[AlbumDoc(a)] = s[AlbumDoc(a)] /\ db'[AlbumDoc(a)] = [rev |-> rev, refs |-> refs]
  <2>1. t[AlbumDoc(a)] # s[AlbumDoc(a)] /\ AlbumDoc(a) \in CatalogDocs
    BY <1>1, <1>3, DocsAreDocs
  <2> QED BY <2>1, <1>2, <1>3
<1>6. ASSUME NEW r \in refs PROVE db[RefDoc(r)] \in {NoAlbum, a} /\ db'[RefDoc(r)] = a
  <2>1. t[RefDoc(r)] = a /\ RefDoc(r) \in CatalogDocs /\ r \in Ref
    BY <1>1, <1>3, DocsAreDocs
  <2>2. CASE s[RefDoc(r)] # a
    BY <2>1, <2>2, <1>1, <1>2
  <2>3. CASE s[RefDoc(r)] = a
    <3>1. r \in db[AlbumDoc(a)].refs
      BY <2>1, <2>3, <1>4, <1>5 DEF Indexed
    <3>2. db[RefDoc(r)] = a
      BY <3>1, <2>1, <1>4 DEF Indexed
    <3> QED BY <3>2, <2>1, <2>3, <1>2
  <2> QED BY <2>2, <2>3
<1>7. MayEnter(db, a, rev, refs)
  BY <1>1, <1>5, <1>6 DEF MayEnter
<1>8. \A b \in Album \ {a} : db'[AlbumDoc(b)] = db[AlbumDoc(b)]
  BY <1>2, <1>3, DocsAreDocs
<1>9. \A r \in Ref \ refs : db'[RefDoc(r)] = db[RefDoc(r)]
  BY <1>2, <1>3, DocsAreDocs
<1> QED BY <1>5, <1>6, <1>7, <1>8, <1>9 DEF Enters, s

(***************************************************************************)
(* The decisions                                                           *)
(***************************************************************************)
\* What the step of a moderator's request that commits is: a decision about
\* the suggestion it was sent about, at the revision that it read.
DecidedBy(c, k) ==
  /\ c \in OpenClients /\ Transactions' /\ UNCHANGED call
  /\ \E W : FallBehind(OpenClients \ {c}, W)
  /\ SoundCatalog(db') /\ Grown(db, db') /\ Decides(db, db', tx[c].req.sub, k)
  /\ tx[c].req.rev = db[SubmissionDoc(tx[c].req.sub)].rev

\* A suggestion of a type is one with such fields.
LEMMA SubmissionFields ==
  ASSUME NEW k \in SubmissionType
  PROVE  /\ k.status \in {"absent", "pending", "needs_changes"} \cup Settled
         /\ k.type \in {"new_album", "catalog_correction"} /\ k.rev \in 0..MaxRevision /\ k.refs \in SUBSET Ref
         /\ k.flagged \in BOOLEAN /\ k.target \in Album \cup {NoAlbum} /\ k.base \in 0..MaxCatalog
         /\ k.album \in Album \cup {NoAlbum} /\ k.published \in {"no", "created", "linked", "corrected"}
         /\ k.applied \in SUBSET Ref
BY DEF SubmissionType

\* An approval turns a pending suggestion into one that is approved.
ApprovedAs(k, a, kind, refs) == [k EXCEPT !.status = "approved", !.album = a, !.published = kind, !.applied = refs]
LEMMA ApprovedFields ==
  ASSUME NEW k \in SubmissionType, Whole(k), k.status = "pending", NEW a \in Album,
         NEW kind \in {"created", "linked", "corrected"}, NEW refs \in SUBSET Ref
  PROVE  LET n == ApprovedAs(k, a, kind, refs)
         IN  /\ n \in SubmissionType /\ Whole(n) /\ n.status = "approved" /\ n.rev = k.rev /\ n.rev \in Revision
             /\ n.album = a /\ n.published = kind /\ n.applied = refs
<1> DEFINE n == ApprovedAs(k, a, kind, refs)
<1>1. n \in SubmissionType
  BY DEF SubmissionType, ApprovedAs, Settled
<1>2. /\ n.status = "approved" /\ n.rev = k.rev /\ n.album = a /\ n.published = kind /\ n.applied = refs
      /\ n.type = k.type /\ n.target = k.target /\ n.base = k.base
  BY DEF SubmissionType, ApprovedAs
<1>3. n.rev \in Revision
  BY <1>2 DEF Whole
<1>4. Whole(n)
  BY <1>2, <1>3 DEF Whole
<1> QED BY <1>1, <1>2, <1>3, <1>4

\* A decision that does not publish turns a pending suggestion into one with another status.
LEMMA RestatedFields ==
  ASSUME NEW k \in SubmissionType, Whole(k), k.status = "pending", NEW st \in {"needs_changes", "rejected", "duplicate"}
  PROVE  LET n == [k EXCEPT !.status = st]
         IN  /\ n \in SubmissionType /\ Whole(n) /\ n.status = st /\ n.rev = k.rev /\ n.rev \in Revision
             /\ n.published = "no"
<1> DEFINE n == [k EXCEPT !.status = st]
<1>1. n \in SubmissionType
  BY DEF SubmissionType, Settled
<1>2. /\ n.status = st /\ n.rev = k.rev /\ n.published = k.published
      /\ n.type = k.type /\ n.target = k.target /\ n.base = k.base
  BY DEF SubmissionType
<1>3. n.rev \in Revision /\ n.published = "no"
  BY <1>2 DEF Whole
<1>4. Whole(n)
  BY <1>2, <1>3 DEF Whole
<1> QED BY <1>1, <1>2, <1>3, <1>4

\* What the invariant says of a request that is about to commit.
Ready(c) ==
  /\ Transactions /\ SoundCatalog(db) /\ c \in OpenClients /\ tx[c].req \in Request
  /\ SoundCatalog(tx[c].snap) /\ Grown(tx[c].snap, db)

\* What a request that commits does, given what it made of its snapshot.
LEMMA ReadyDecides ==
  ASSUME NEW c, Ready(c), NEW t, NEW k, Decides(tx[c].snap, t, tx[c].req.sub, k), Finish(c, t),
         tx[c].req.rev = tx[c].snap[SubmissionDoc(tx[c].req.sub)].rev
  PROVE  /\ Deciding(c, t, tx[c].req.sub, k) /\ Transactions' /\ UNCHANGED call /\ c \in OpenClients
         /\ \E W : FallBehind(OpenClients \ {c}, W)
         /\ Decides(db, db', tx[c].req.sub, k)
         /\ tx[c].req.rev = db[SubmissionDoc(tx[c].req.sub)].rev
<1>1. Transactions /\ c \in OpenClients /\ DOMAIN t = DOMAIN db /\ Commit(c, t) /\ UNCHANGED call
  BY DEF Ready, SoundCatalog, TypedCatalog, Decides, Finish
<1>2. Transactions' /\ Committed(c, t, Changed(tx[c].snap, t))
  BY <1>1, CommitKeepsTransactions
<1>3. Deciding(c, t, tx[c].req.sub, k)
  BY <1>2 DEF Deciding, Ready
<1>4. /\ db[SubmissionDoc(tx[c].req.sub)] = tx[c].snap[SubmissionDoc(tx[c].req.sub)]
      /\ Decides(db, db', tx[c].req.sub, k)
  BY <1>3, SerialDecisions
<1>5. \E W : FallBehind(OpenClients \ {c}, W)
  BY <1>2 DEF Committed
<1> QED BY <1>1, <1>2, <1>3, <1>4, <1>5

\* A moderator's command, without an album.
LEMMA CommandDecides ==
  ASSUME NEW c \in Moderator, Ready(c), Command(c)
  PROVE  \E k : DecidedBy(c, k)
<1> DEFINE s == tx[c].snap  x == tx[c].req.sub  sub == s[SubmissionDoc(x)]  st == tx[c].req.to
           k == [sub EXCEPT !.status = st]  t == Announced(Restated(s, x, st), x, st)
<1>1. /\ sub.status = "pending" /\ sub.rev = tx[c].req.rev /\ Finish(c, t) /\ tx[c].req.op = "command"
  BY DEF Command, Running, StillAsRead
<1>2. x \in Submission /\ st \in {"needs_changes", "rejected", "duplicate"}
  BY <1>1 DEF Ready, Request
<1>3. SoundCatalog(s) /\ DOMAIN s = CatalogDocs /\ sub \in SubmissionType /\ Whole(sub)
  BY <1>2 DEF Ready, SoundCatalog, TypedCatalog
<1>4. /\ k \in SubmissionType /\ Whole(k) /\ k.status = st /\ k.rev = sub.rev /\ k.rev \in Revision /\ k.published = "no"
  BY <1>1, <1>2, <1>3, RestatedFields
<1>5. k.status \in Decision /\ k.status # "approved"
  BY <1>2, <1>4 DEF Decision
<1>6. t = Announced(Became(s, x, k), x, k.status)
  BY <1>4 DEF Restated, Became
<1> HIDE DEF s, x, st, sub, k, t
<1>7. DOMAIN t = CatalogDocs /\ Settles(s, t, x, k) /\ LeavesAlbums(s, t)
  BY <1>2, <1>3, <1>4, <1>5, <1>6, AnnouncedSettles
<1>8. Decides(s, t, x, k)
  BY <1>1, <1>2, <1>4, <1>5, <1>7 DEF Decides, sub
<1>9. /\ Deciding(c, t, x, k) /\ Transactions' /\ UNCHANGED call /\ c \in OpenClients
      /\ \E W : FallBehind(OpenClients \ {c}, W)
      /\ Decides(db, db', x, k) /\ tx[c].req.rev = db[SubmissionDoc(x)].rev
  BY <1>1, <1>8, ReadyDecides DEF s, x, sub
<1>10. LeavesAlbums(db, db')
  BY <1>7, <1>9, SerialLeaving DEF s
<1>11. SoundCatalog(db)
  BY DEF Ready
<1>12. k.published # "created" /\ k.status # "approved"
  BY <1>4, <1>5
<1>13. SoundCatalog(db') /\ Grown(db, db')
  BY <1>9, <1>10, <1>11, <1>12, PlainDecisions
<1> QED BY <1>9, <1>13 DEF DecidedBy, x

\* A suggestion approved on a snapshot, of which only albums and their entries changed.
LEMMA ApprovedDecides ==
  ASSUME NEW s, SoundCatalog(s), NEW x \in Submission, s[SubmissionDoc(x)].status = "pending",
         NEW u, DOMAIN u = CatalogDocs, \A y \in Submission : u[SubmissionDoc(y)] = s[SubmissionDoc(y)],
         \A y \in Submission, m \in Revision, st \in Decision : u[NoteDoc(y, m, st)] = s[NoteDoc(y, m, st)],
         NEW a \in Album, NEW kind \in {"created", "linked", "corrected"}, NEW refs \in SUBSET Ref,
         NEW t, t = Approved(u, x, a, kind, refs), NEW k, k = ApprovedAs(s[SubmissionDoc(x)], a, kind, refs)
  PROVE  Decides(s, t, x, k) /\ LeavesAlbums(u, t)
<1> DEFINE sub == s[SubmissionDoc(x)]
<1>1. sub \in SubmissionType /\ Whole(sub) /\ sub.status = "pending"
  BY DEF SoundCatalog, TypedCatalog
<1> HIDE DEF sub
<1>2. ApprovedAs(sub, a, kind, refs) = k
  BY DEF sub
<1>3. /\ k \in SubmissionType /\ Whole(k) /\ k.status = "approved" /\ k.rev = sub.rev /\ k.rev \in Revision
  BY <1>1, <1>2, ApprovedFields
<1>4. k.status \in Decision
  BY <1>3 DEF Decision
<1>5. u[SubmissionDoc(x)] = sub
  BY DEF sub
<1>6. t = Announced(Became(u, x, k), x, k.status)
  BY <1>2, <1>3, <1>5 DEF Approved, ApprovedAs, Became
<1>7. DOMAIN t = CatalogDocs /\ Settles(u, t, x, k) /\ LeavesAlbums(u, t)
  BY <1>3, <1>4, <1>6, AnnouncedSettles
<1>8. Settles(s, t, x, k)
  BY <1>7 DEF Settles
<1> QED BY <1>1, <1>3, <1>4, <1>7, <1>8 DEF Decides, sub

\* What matches no other album may be entered for this one.
LEMMA UnmatchedMayEnter ==
  ASSUME NEW s, SoundCatalog(s), NEW a \in Album, NEW rev \in 1..MaxCatalog, NEW refs \in SUBSET Ref,
         CatalogMatches(s, refs) \subseteq {a}
  PROVE  MayEnter(s, a, rev, s[AlbumDoc(a)].refs \cup refs)
<1>1. s[AlbumDoc(a)].refs \subseteq Ref
  BY DEF SoundCatalog, TypedCatalog
<1>2. ASSUME NEW r \in s[AlbumDoc(a)].refs \cup refs PROVE s[RefDoc(r)] \in {NoAlbum, a}
  <2> SUFFICES ASSUME s[RefDoc(r)] # NoAlbum, s[RefDoc(r)] # a PROVE FALSE
    OBVIOUS
  <2>1. r \in Ref
    BY <1>1
  <2>2. s[RefDoc(r)] \in Album
    BY <2>1 DEF SoundCatalog, TypedCatalog
  <2>3. Indexed(s, s[RefDoc(r)]) /\ Indexed(s, a)
    BY <2>2 DEF SoundCatalog
  <2>4. r \in s[AlbumDoc(s[RefDoc(r)])].refs /\ r \notin s[AlbumDoc(a)].refs
    BY <2>1, <2>3 DEF Indexed
  <2>5. s[RefDoc(r)] \in CatalogMatches(s, refs)
    BY <2>2, <2>4 DEF CatalogMatches
  <2> QED BY <2>5
<1> QED BY <1>1, <1>2 DEF MayEnter

\* Album documents that are as they were were entered as they were.
LEMMA LeavingEnters ==
  ASSUME NEW s, NEW u, NEW t, NEW a \in Album, NEW rev, NEW refs \in SUBSET Ref, Enters(s, u, a, rev, refs), LeavesAlbums(u, t)
  PROVE  Enters(s, t, a, rev, refs)
BY DEF Enters, LeavesAlbums

\* The approval of a new album, which creates it or links the one that was chosen.
LEMMA NewAlbumDecides ==
  ASSUME NEW c \in Moderator, Ready(c), ApproveNewAlbum(c)
  PROVE  \E k : DecidedBy(c, k)
<1> DEFINE s == tx[c].snap  req == tx[c].req  x == req.sub  sub == s[SubmissionDoc(x)]  refs == sub.refs \cup req.found
<1>1. /\ sub.status = "pending" /\ sub.rev = req.rev /\ req.op = "approve"
      /\ \/ /\ req.choice = NoAlbum /\ s[AlbumDoc(c)].rev = 0 /\ CatalogMatches(s, refs) = {}
            /\ Finish(c, Approved(Created(s, c, refs), x, c, "created", refs))
         \/ /\ req.choice # NoAlbum /\ s[AlbumDoc(req.choice)].rev > 0
            /\ Finish(c, Approved(s, x, req.choice, "linked", {}))
  BY Zenon DEF ApproveNewAlbum, Running, StillAsRead
<1>2. x \in Submission /\ req.choice \in Album \cup {NoAlbum} /\ req.found \subseteq Ref
  BY <1>1 DEF Ready, Request
<1>3. SoundCatalog(s) /\ SoundCatalog(db) /\ DOMAIN s = CatalogDocs /\ sub \in SubmissionType /\ refs \in SUBSET Ref
  BY <1>2, SubmissionFields DEF Ready, SoundCatalog, TypedCatalog
<1>4. c \in Album
  BY DEF Album
<1>5. Whole(sub)
  BY <1>2, <1>3 DEF SoundCatalog
<1> HIDE DEF sub, refs, x, req, s
<1>6. CASE req.choice = NoAlbum
  <2> DEFINE u == Created(s, c, refs)  t == Approved(u, x, c, "created", refs)
             k == ApprovedAs(sub, c, "created", refs)
  <2>1. s[AlbumDoc(c)].rev = 0 /\ CatalogMatches(s, refs) = {} /\ Finish(c, t)
    BY <1>1, <1>6
  <2>2. /\ DOMAIN u = CatalogDocs /\ Enters(s, u, c, 1, refs)
        /\ \A y \in Submission : u[SubmissionDoc(y)] = s[SubmissionDoc(y)]
        /\ \A y \in Submission, m \in Revision, st \in Decision : u[NoteDoc(y, m, st)] = s[NoteDoc(y, m, st)]
    BY <1>3, <1>4, EnteredEnters DEF Created
  <2>3. k.status = "approved" /\ k.album = c /\ k.published = "created" /\ k.applied = refs
    BY <1>1, <1>3, <1>4, <1>5, ApprovedFields
  <2> HIDE DEF u, t, k
  <2>4. Decides(s, t, x, k) /\ LeavesAlbums(u, t)
    BY <1>1, <1>2, <1>3, <1>4, <2>2, ApprovedDecides DEF t, k, sub
  <2>5. Enters(s, t, c, 1, refs)
    BY <1>3, <1>4, <2>2, <2>4, LeavingEnters
  <2>6. s[AlbumDoc(c)].refs = {}
    BY <1>3, <1>4, <2>1 DEF SoundCatalog, Indexed
  <2>7. MayEnter(s, c, 1, refs)
    <3>1. MayEnter(s, c, 1, s[AlbumDoc(c)].refs \cup refs)
      BY <1>3, <1>4, <2>1, SuggestionsAssumption, UnmatchedMayEnter
    <3>2. s[AlbumDoc(c)].refs \cup refs = refs
      BY <2>6
    <3> QED BY <3>1, <3>2
  <2>8. /\ Deciding(c, t, x, k) /\ Transactions' /\ UNCHANGED call /\ c \in OpenClients
        /\ \E W : FallBehind(OpenClients \ {c}, W)
        /\ Decides(db, db', x, k) /\ req.rev = db[SubmissionDoc(x)].rev
    BY <1>1, <2>1, <2>4, ReadyDecides DEF s, x, sub, req
  <2>9. db[AlbumDoc(c)] = s[AlbumDoc(c)] /\ MayEnter(db, c, 1, refs) /\ Enters(db, db', c, 1, refs)
    <3>1. 1 # s[AlbumDoc(c)].rev
      BY <2>1
    <3> QED BY <2>5, <2>7, <2>8, <3>1, SerialEntries DEF s
  <2>10. SoundCatalog(db') /\ Grown(db, db')
    BY <1>3, <2>1, <2>3, <2>8, <2>9, CreatingDecisions
  <2> QED BY <2>8, <2>10 DEF DecidedBy, x, req
<1>7. CASE req.choice # NoAlbum
  <2> DEFINE a == req.choice  t == Approved(s, x, a, "linked", {})  k == ApprovedAs(sub, a, "linked", {})
  <2>1. s[AlbumDoc(a)].rev > 0 /\ Finish(c, t) /\ a \in Album
    BY <1>1, <1>2, <1>7
  <2>2. k.status = "approved" /\ k.album = a /\ k.published = "linked" /\ k.applied = {}
    BY <1>1, <1>3, <1>5, <2>1, ApprovedFields
  <2> HIDE DEF a, t, k
  <2>3. Decides(s, t, x, k) /\ LeavesAlbums(s, t)
    BY <1>1, <1>2, <1>3, <2>1, ApprovedDecides DEF t, k, sub
  <2>4. /\ Deciding(c, t, x, k) /\ Transactions' /\ UNCHANGED call /\ c \in OpenClients
        /\ \E W : FallBehind(OpenClients \ {c}, W)
        /\ Decides(db, db', x, k) /\ req.rev = db[SubmissionDoc(x)].rev
    BY <1>1, <2>1, <2>3, ReadyDecides DEF s, x, sub, req
  <2>5. LeavesAlbums(db, db')
    BY <2>3, <2>4, SerialLeaving DEF s
  <2>6. db[AlbumDoc(a)].rev > 0
    BY <2>1 DEF Ready, Grown, s
  <2>7. SoundCatalog(db') /\ Grown(db, db')
    BY <1>3, <2>1, <2>2, <2>4, <2>5, <2>6, PlainDecisions
  <2> QED BY <2>4, <2>7 DEF DecidedBy, x, req
<1> QED BY <1>6, <1>7

\* The approval of a correction.
LEMMA CorrectionDecides ==
  ASSUME NEW c \in Moderator, Ready(c), ApproveCorrection(c)
  PROVE  \E k : DecidedBy(c, k)
<1> DEFINE s == tx[c].snap  req == tx[c].req  x == req.sub  sub == s[SubmissionDoc(x)]  a == sub.target
           refs == IF req.applied THEN sub.refs ELSE {}
           all == s[AlbumDoc(a)].refs \cup refs  rev == s[AlbumDoc(a)].rev + 1
           u == Corrected(s, a, refs)  t == Approved(u, x, a, "corrected", refs)
           k == ApprovedAs(sub, a, "corrected", refs)
<1>1. /\ sub.status = "pending" /\ sub.rev = req.rev /\ req.op = "approve" /\ sub.type = "catalog_correction"
      /\ s[AlbumDoc(a)].rev = sub.base /\ CatalogMatches(s, refs) \subseteq {a} /\ s[AlbumDoc(a)].rev < MaxCatalog
      /\ Finish(c, t)
  BY Zenon DEF ApproveCorrection, Running, StillAsRead
<1>2. x \in Submission
  BY <1>1 DEF Ready, Request
<1>3. SoundCatalog(s) /\ SoundCatalog(db) /\ DOMAIN s = CatalogDocs /\ sub \in SubmissionType /\ refs \in SUBSET Ref
  BY <1>2, SubmissionFields DEF Ready, SoundCatalog, TypedCatalog
<1>4. Whole(sub)
  BY <1>2, <1>3 DEF SoundCatalog
<1>5. a \in Album /\ s[AlbumDoc(a)].rev > 0
  BY <1>1, <1>4 DEF Whole
<1>6. s[AlbumDoc(a)].rev \in 0..MaxCatalog /\ all \in SUBSET Ref
  BY <1>3, <1>5 DEF SoundCatalog, TypedCatalog
<1>7. rev \in 1..MaxCatalog /\ rev # s[AlbumDoc(a)].rev
  <2>1. ASSUME NEW n \in 0..MaxCatalog, n < MaxCatalog PROVE n + 1 \in 1..MaxCatalog /\ n + 1 # n
    BY <2>1, SuggestionsAssumption
  <2>2. s[AlbumDoc(a)].rev \in 0..MaxCatalog /\ s[AlbumDoc(a)].rev < MaxCatalog
    BY <1>1, <1>6
  <2> HIDE DEF s, a
  <2> QED BY <2>1, <2>2
<1>8. u = Entered(s, a, rev, all)
  BY DEF Corrected
<1>9. k.status = "approved" /\ k.album = a /\ k.published = "corrected" /\ k.applied = refs
  <2> HIDE DEF s, a, sub, refs
  <2> QED BY <1>1, <1>3, <1>4, <1>5, ApprovedFields
<1>10. refs \subseteq all
  OBVIOUS
<1>11. MayEnter(s, a, rev, all)
  BY <1>1, <1>3, <1>5, <1>7, UnmatchedMayEnter
<1> HIDE DEF u, t, k, all, rev, refs, a, sub, x, req, s
<1>12. /\ DOMAIN u = CatalogDocs /\ Enters(s, u, a, rev, all)
       /\ \A y \in Submission : u[SubmissionDoc(y)] = s[SubmissionDoc(y)]
       /\ \A y \in Submission, m \in Revision, st \in Decision : u[NoteDoc(y, m, st)] = s[NoteDoc(y, m, st)]
  BY <1>3, <1>5, <1>6, <1>8, EnteredEnters
<1>13. Decides(s, t, x, k) /\ LeavesAlbums(u, t)
  BY <1>1, <1>2, <1>3, <1>5, <1>12, ApprovedDecides DEF t, k, sub
<1>14. Enters(s, t, a, rev, all)
  BY <1>5, <1>6, <1>12, <1>13, LeavingEnters
<1>15. /\ Deciding(c, t, x, k) /\ Transactions' /\ UNCHANGED call /\ c \in OpenClients
       /\ \E W : FallBehind(OpenClients \ {c}, W)
       /\ Decides(db, db', x, k) /\ req.rev = db[SubmissionDoc(x)].rev
  BY <1>1, <1>13, ReadyDecides DEF s, x, sub, req
<1>16. db[AlbumDoc(a)] = s[AlbumDoc(a)] /\ MayEnter(db, a, rev, all) /\ Enters(db, db', a, rev, all)
  BY <1>7, <1>11, <1>14, <1>15, SerialEntries DEF s
<1>17. k.published # "created" /\ k.applied \subseteq all /\ db[AlbumDoc(k.album)].rev > 0
  BY <1>5, <1>9, <1>10, <1>16
<1>18. SoundCatalog(db') /\ Grown(db, db')
  BY <1>3, <1>9, <1>15, <1>16, <1>17, CorrectingDecisions
<1> QED BY <1>15, <1>18 DEF DecidedBy, x, req

(***************************************************************************)
(* The contributor                                                         *)
(***************************************************************************)
\* The suggestion x, on which no decision stands, became k, on which none stands either.
Replaces(s, n, x, k) ==
  /\ x \in Submission /\ s[SubmissionDoc(x)].status \notin {"approved", "rejected", "duplicate"}
  /\ k \in SubmissionType /\ k.status \in {"pending", "withdrawn"} /\ Whole(k)
  /\ n = Became(s, x, k)

\* Such a step keeps a sound catalog sound.
LEMMA ReplacingKeepsCatalogs ==
  ASSUME NEW s, SoundCatalog(s), NEW n, NEW x, NEW k, Replaces(s, n, x, k)
  PROVE  /\ SoundCatalog(n) /\ Grown(s, n) /\ n[SubmissionDoc(x)] = k
         /\ \A y \in Submission \ {x} : n[SubmissionDoc(y)] = s[SubmissionDoc(y)]
<1>1. x \in Submission /\ SubmissionDoc(x) \in CatalogDocs /\ DOMAIN s = CatalogDocs /\ n = Became(s, x, k)
  BY DocsAreDocs DEF Replaces, SoundCatalog, TypedCatalog
<1>2. /\ DOMAIN n = CatalogDocs /\ n[SubmissionDoc(x)] = k
      /\ \A d \in CatalogDocs : d # SubmissionDoc(x) => n[d] = s[d]
  BY <1>1 DEF Became
<1>3. ASSUME NEW y \in Submission \ {x} PROVE n[SubmissionDoc(y)] = s[SubmissionDoc(y)]
  BY <1>2, DocsAreDocs, DocsApart
<1>4. ASSUME NEW y \in Submission, NEW m \in Revision, NEW st \in Decision PROVE n[NoteDoc(y, m, st)] = s[NoteDoc(y, m, st)]
  <2>1. NoteDoc(y, m, st) # SubmissionDoc(x)
    BY DocsApart
  <2> QED BY <2>1, <1>2, DocsAreDocs
<1>5. \A b \in Album : n[AlbumDoc(b)] = s[AlbumDoc(b)]
  BY <1>2, DocsAreDocs, DocsApart
<1>6. \A r \in Ref : n[RefDoc(r)] = s[RefDoc(r)]
  BY <1>2, DocsAreDocs, DocsApart
<1>7. k \in SubmissionType /\ Whole(k) /\ k.status \in {"pending", "withdrawn"}
  BY DEF Replaces
<1>8. TypedCatalog(n)
  <2>1. ASSUME NEW y \in Submission PROVE n[SubmissionDoc(y)] \in SubmissionType
    BY <1>2, <1>3, <1>7 DEF SoundCatalog, TypedCatalog
  <2> QED BY <2>1, <1>2, <1>5, <1>6 DEF SoundCatalog, TypedCatalog
<1>9. ASSUME NEW y \in Submission PROVE Whole(n[SubmissionDoc(y)]) /\ Kept(n, n[SubmissionDoc(y)]) /\ Told(n, y)
  <2>1. CASE y # x
    <3>1. Whole(s[SubmissionDoc(y)]) /\ Kept(s, s[SubmissionDoc(y)]) /\ Told(s, y) /\ n[SubmissionDoc(y)] = s[SubmissionDoc(y)]
      BY <2>1, <1>3 DEF SoundCatalog
    <3>2. s[SubmissionDoc(y)].status \in Decision => s[SubmissionDoc(y)].rev \in Revision
      BY <3>1 DEF Whole, Decision
    <3> QED BY <3>1, <3>2, <1>4, <1>5 DEF Kept, Told
  <2>2. CASE y = x
    <3>1. Told(s, x) /\ s[SubmissionDoc(x)].status \notin {"approved", "rejected", "duplicate"}
      BY <1>1 DEF SoundCatalog, Replaces
    <3>2. ASSUME NEW m \in Revision, NEW st \in Decision \cap Settled PROVE ~s[NoteDoc(x, m, st)]
      BY <3>1 DEF Told, Decision, Settled
    <3>3. Told(n, x)
      BY <3>2, <1>1, <1>2, <1>4, <1>7 DEF Told, Decision
    <3> QED BY <2>2, <3>3, <1>2, <1>7 DEF Kept
  <2> QED BY <2>1, <2>2
<1>10. \A b \in Album : Indexed(n, b)
  BY <1>5, <1>6 DEF SoundCatalog, Indexed
<1>11. ASSUME NEW a \in Moderator PROVE MadeOnce(n, a)
  <2>1. s[SubmissionDoc(x)].published = "no" /\ k.published = "no"
    BY <1>1, <1>7 DEF SoundCatalog, Whole, Replaces
  <2>2. Creations(n, a) = Creations(s, a)
    <3> SUFFICES ASSUME NEW y \in Submission PROVE y \in Creations(n, a) <=> y \in Creations(s, a)
      BY DEF Creations
    <3>1. CASE y = x
      BY <3>1, <2>1, <1>2 DEF Creations
    <3>2. CASE y # x
      BY <3>2, <1>3 DEF Creations
    <3> QED BY <3>1, <3>2
  <2>3. MadeOnce(s, a) /\ a \in Album
    BY DEF SoundCatalog, Album
  <2> QED BY <2>2, <2>3, <1>5 DEF MadeOnce
<1>12. Grown(s, n)
  BY <1>4, <1>5 DEF Grown
<1> QED BY <1>2, <1>3, <1>8, <1>9, <1>10, <1>11, <1>12 DEF SoundCatalog

\* What the step of a contributor that writes is.
RewrittenAs(x, k) ==
  /\ Transactions' /\ \E W : FallBehind(OpenClients, W)
  /\ SoundCatalog(db') /\ Grown(db, db') /\ Replaces(db, db', x, k)

\* A revision or a withdrawal that is written leaves every open transaction behind.
LEMMA WritesRewrite ==
  ASSUME Transactions, SoundCatalog(db), NEW x, NEW k, NEW t, Write(t), Replaces(db, t, x, k)
  PROVE  RewrittenAs(x, k)
<1>1. db' = t
  BY DEF Write
<1>2. SoundCatalog(t) /\ Grown(db, t)
  BY ReplacingKeepsCatalogs
<1>3. DOMAIN t = DOMAIN db
  BY <1>2 DEF SoundCatalog, TypedCatalog
<1>4. Transactions' /\ FallBehind(OpenClients, Changed(db, t))
  BY <1>3, WriteKeepsTransactions
<1> QED BY <1>1, <1>2, <1>4 DEF RewrittenAs

\* The contributor saves what was composed.
LEMMA SaveRewrites ==
  ASSUME SuggestionsInv, NEW c \in Client, Save(c)
  PROVE  \E x \in Submission : \E k : RewrittenAs(x, k) /\ db[SubmissionDoc(x)].status \in {"absent", "needs_changes"}
<1> DEFINE x == call[c].sub  k == call[c].as  t == Became(db, x, k)
<1>1. call[c].pc = "composed" /\ db[SubmissionDoc(x)].status \in {"absent", "needs_changes"} /\ Write(t)
  BY DEF Save, Became
<1>2. x \in Submission /\ k \in SubmissionType /\ k.status = "pending" /\ Whole(k)
  BY <1>1 DEF SuggestionsInv, Carried
<1>3. Replaces(db, t, x, k)
  BY <1>1, <1>2 DEF Replaces
<1> HIDE DEF x, k, t
<1>4. RewrittenAs(x, k)
  BY <1>1, <1>3, WritesRewrite DEF SuggestionsInv
<1> QED BY <1>1, <1>2, <1>4

\* The contributor withdraws.
LEMMA WithdrawRewrites ==
  ASSUME SuggestionsInv, NEW x \in Submission, Withdraw(x)
  PROVE  \E k : /\ RewrittenAs(x, k) /\ db[SubmissionDoc(x)].status \in {"pending", "needs_changes"}
                /\ k.status = "withdrawn"
<1> DEFINE sub == db[SubmissionDoc(x)]  k == [sub EXCEPT !.status = "withdrawn"]  t == Became(db, x, k)
<1>1. sub.status \in {"pending", "needs_changes"} /\ Write(t)
  BY DEF Withdraw, Restated, Became, Active
<1>2. sub \in SubmissionType /\ Whole(sub)
  BY DEF SuggestionsInv, SoundCatalog, TypedCatalog
<1>3. k \in SubmissionType
  BY <1>2 DEF SubmissionType, Settled
<1>4. /\ k.status = "withdrawn" /\ k.rev = sub.rev /\ k.published = sub.published
      /\ k.type = sub.type /\ k.target = sub.target /\ k.base = sub.base
  BY <1>2 DEF SubmissionType
<1>5. Whole(k)
  BY <1>1, <1>2, <1>4 DEF Whole
<1> HIDE DEF k
<1>6. Replaces(db, t, x, k)
  BY <1>1, <1>3, <1>4, <1>5 DEF Replaces
<1> HIDE DEF t
<1>7. RewrittenAs(x, k)
  BY <1>1, <1>6, WritesRewrite DEF SuggestionsInv
<1> QED BY <1>1, <1>4, <1>7

(***************************************************************************)
(* Every step                                                              *)
(***************************************************************************)
Calls == DOMAIN call = Client /\ \A c \in Client : Carried(call[c])
Open(x) == tx[x].req \in Request /\ SoundCatalog(tx[x].snap) /\ Grown(tx[x].snap, db)

\* A request that goes on carries what it read.
LEMMA CallsCarry ==
  ASSUME SuggestionsInv, NEW c, NEW v, call' = [call EXCEPT ![c] = v], Carried(v)
  PROVE  Calls'
<1>1. DOMAIN call' = Client /\ \A x \in Client : Carried(call[x])
  BY DEF SuggestionsInv
<1>2. ASSUME NEW x \in Client PROVE call'[x] \in {v, call[x]}
  BY <1>1 DEF SuggestionsInv
<1>3. ASSUME NEW x \in Client PROVE Carried(call'[x])
  BY <1>1, <1>2
<1>4. ASSUME NEW x \in Client PROVE Carried(call[x])'
  BY <1>3 DEF Carried
<1> QED BY <1>1, <1>4 DEF Calls

\* An open transaction keeps what it has while the catalog grows.
LEMMA OpenStaysOpen ==
  ASSUME SuggestionsInv, NEW others, others \subseteq OpenClients, NEW W, FallBehind(others, W),
         Transactions', SoundCatalog(db'), Grown(db, db'), Calls'
  PROVE  SuggestionsInv'
<1>1. ASSUME NEW x \in others PROVE tx'[x].req \in Request /\ SoundCatalog(tx'[x].snap) /\ Grown(tx'[x].snap, db')
  <2>1. tx'[x].req = tx[x].req /\ tx'[x].snap = tx[x].snap
    BY DEF FallBehind
  <2>2. tx[x].req \in Request /\ SoundCatalog(tx[x].snap) /\ Grown(tx[x].snap, db)
    BY DEF SuggestionsInv
  <2>3. Grown(tx[x].snap, db')
    BY <2>2 DEF Grown
  <2> QED BY <2>1, <2>2, <2>3
<1>2. OpenClients' = others
  BY DEF FallBehind
<1> QED BY <1>1, <1>2 DEF SuggestionsInv, Calls, Carried

\* A decision keeps the invariant.
LEMMA DecisionsKeepInv ==
  ASSUME SuggestionsInv, NEW c, NEW k, DecidedBy(c, k)
  PROVE  SuggestionsInv'
<1>1. PICK W : FallBehind(OpenClients \ {c}, W)
  BY DEF DecidedBy
<1>2. Calls'
  BY DEF DecidedBy, SuggestionsInv, Calls, Carried
<1> QED BY <1>1, <1>2, OpenStaysOpen DEF DecidedBy

\* So does what a contributor writes.
LEMMA RewritesKeepInv ==
  ASSUME SuggestionsInv, NEW x, NEW k, RewrittenAs(x, k), Calls'
  PROVE  SuggestionsInv'
<1>1. PICK W : FallBehind(OpenClients, W)
  BY DEF RewrittenAs
<1> QED BY <1>1, OpenStaysOpen DEF RewrittenAs

\* And what a request only reads.
LEMMA ReadsKeepInv ==
  ASSUME SuggestionsInv, UNCHANGED <<db, tx>>, Calls'
  PROVE  SuggestionsInv'
<1>1. Transactions' /\ OpenClients' = OpenClients
  BY DEF SuggestionsInv, Transactions, SnapshotShape, SnapshotsAreCurrent, OpenClients
<1> QED BY <1>1 DEF SuggestionsInv, Calls, Carried

\* A transaction that begins, or begins again, starts from a sound catalog.
LEMMA FreshIsOpen ==
  ASSUME SuggestionsInv, NEW c, NEW request \in Request, Transactions', db' = db, Calls',
         OpenClients' = OpenClients \cup {c}, tx'[c] = Fresh(request), \A x \in OpenClients \ {c} : tx'[x] = tx[x]
  PROVE  SuggestionsInv'
<1>1. SoundCatalog(db) /\ Grown(db, db)
  BY DEF SuggestionsInv, Grown
<1>2. tx'[c].req \in Request /\ SoundCatalog(tx'[c].snap) /\ Grown(tx'[c].snap, db)
  BY <1>1 DEF Fresh
<1>3. ASSUME NEW x \in OpenClients' PROVE tx'[x].req \in Request /\ SoundCatalog(tx'[x].snap) /\ Grown(tx'[x].snap, db)
  <2>1. CASE x = c
    BY <2>1, <1>2
  <2>2. CASE x # c
    BY <2>2, <1>3 DEF SuggestionsInv
  <2> QED BY <2>1, <2>2
<1> QED BY <1>1, <1>3 DEF SuggestionsInv, Calls, Carried

\* What the handler of the form carries is a suggestion that may be saved.
LEMMA ComposeCarries ==
  ASSUME SuggestionsInv, NEW c \in Contributor, NEW s \in Submission, NEW type \in {"new_album", "catalog_correction"},
         NEW target \in Album \cup {NoAlbum}, NEW refs \in SUBSET Ref, Compose(c, s, type, target, refs)
  PROVE  Calls'
<1> DEFINE sub == db[SubmissionDoc(s)]
           base == IF target = NoAlbum THEN 0 ELSE db[AlbumDoc(target)].rev
           flagged == target = NoAlbum /\ (CatalogMatches(db, refs) # {} \/ SubmissionMatches(db, refs, s) # {})
           k == [sub EXCEPT !.status = "pending", !.type = type, !.rev = sub.rev + 1, !.refs = refs,
                   !.target = target, !.base = base, !.flagged = flagged]
           v == [pc |-> "composed", sub |-> s, seen |-> sub.rev, as |-> Composed(s, type, target, refs)]
<1>0. call' = [call EXCEPT ![c] = v]
  BY DEF Compose
<1>1. /\ sub.status = "absent" \/ (sub.status = "needs_changes" /\ sub.rev < MaxRevision)
      /\ (target # NoAlbum) <=> (type = "catalog_correction")
      /\ target # NoAlbum => db[AlbumDoc(target)].rev > 0
  BY Zenon DEF Compose
<1>2. sub \in SubmissionType /\ Whole(sub)
  BY DEF SuggestionsInv, SoundCatalog, TypedCatalog
<1>3. base \in 0..MaxCatalog
  <2>1. CASE target = NoAlbum
    BY <2>1, SuggestionsAssumption
  <2>2. CASE target # NoAlbum
    BY <2>2 DEF SuggestionsInv, SoundCatalog, TypedCatalog
  <2> QED BY <2>1, <2>2
<1>4. flagged \in BOOLEAN
  OBVIOUS
<1>5. sub.rev + 1 \in Revision
  <2>1. sub.rev \in 0..MaxRevision
    BY <1>2, SubmissionFields
  <2>2. sub.rev = 0 \/ sub.rev < MaxRevision
    BY <1>1, <1>2 DEF Whole
  <2> HIDE DEF sub
  <2> QED BY <2>1, <2>2, SuggestionsAssumption DEF Revision
<1>6. target # NoAlbum => base > 0
  BY <1>1
<1> HIDE DEF flagged, base, sub
<1>7. k \in SubmissionType
  <2>1. sub.rev + 1 \in 0..MaxRevision
    BY <1>5, SuggestionsAssumption DEF Revision
  <2> QED BY <1>2, <1>3, <1>4, <2>1 DEF SubmissionType
<1>8. /\ k.status = "pending" /\ k.type = type /\ k.rev = sub.rev + 1 /\ k.target = target /\ k.base = base
      /\ k.published = sub.published
  BY <1>2 DEF SubmissionType
<1>9. sub.published = "no"
  BY <1>1, <1>2 DEF Whole
<1>10. Whole(k)
  BY <1>1, <1>5, <1>6, <1>8, <1>9 DEF Whole
<1>11. v.pc = "composed" /\ v.sub = s /\ v.as = k
  BY Zenon DEF Composed, k, v, sub, base, flagged
<1> HIDE DEF k, v
<1>12. Carried(v)
  BY <1>7, <1>8, <1>10, <1>11 DEF Carried
<1> QED BY <1>0, <1>12, CallsCarry

\* What is read before an approval is a request for it.
LEMMA PreliminaryCarries ==
  ASSUME SuggestionsInv, NEW c, NEW s \in Submission, NEW expected, NEW choice \in Album \cup {NoAlbum},
         NEW confirm \in BOOLEAN, NEW found \in SUBSET Ref, NEW applied \in BOOLEAN,
         Preliminary(c, s, expected, choice, confirm, found, applied)
  PROVE  Calls' /\ UNCHANGED <<db, tx>>
<1> DEFINE q == [op |-> "approve", sub |-> s, rev |-> db[SubmissionDoc(s)].rev,
                 choice |-> choice, confirm |-> confirm, found |-> found, applied |-> applied]
           v == [pc |-> "read", req |-> q]
<1>1. call' = [call EXCEPT ![c] = v] /\ UNCHANGED <<db, tx>>
  BY DEF Preliminary
<1>2. db[SubmissionDoc(s)].rev \in 0..MaxRevision
  BY SubmissionFields DEF SuggestionsInv, SoundCatalog, TypedCatalog
<1>3. q \in Request
  BY <1>2 DEF Request
<1>4. v.pc = "read" /\ v.req = q
  OBVIOUS
<1> HIDE DEF q, v
<1>5. Carried(v)
  BY <1>3, <1>4 DEF Carried
<1> QED BY <1>1, <1>5, CallsCarry

\* A step of the catalog: a decision by a request that ends, a revision, a withdrawal,
\* or one that leaves the catalog as it is.
Decided(c) == \E k : DecidedBy(c, k)
Revised(x) == \E k : RewrittenAs(x, k) /\ db[SubmissionDoc(x)].status \in {"absent", "needs_changes"}
Withdrawn(x) ==
  \E k : RewrittenAs(x, k) /\ db[SubmissionDoc(x)].status \in {"pending", "needs_changes"} /\ k.status = "withdrawn"
Moves ==
  \/ \E c : Decided(c)
  \/ \E x \in Submission : Revised(x) \/ Withdrawn(x)
  \/ UNCHANGED db

\* What requests carry when they go idle.
LEMMA IdleCarries == Carried(Idle)
BY DEF Carried, Idle

\* A revision that is saved, or a withdrawal.
LEMMA ContributorsKeepInv ==
  ASSUME SuggestionsInv
  PROVE  /\ \A c \in Contributor : Save(c) => SuggestionsInv' /\ Moves
         /\ \A x \in Submission : Withdraw(x) => SuggestionsInv' /\ Moves
<1>1. ASSUME NEW c \in Contributor, Save(c) PROVE SuggestionsInv' /\ Moves
  <2>1. PICK x \in Submission : Revised(x)
    BY <1>1, SaveRewrites, SuggestionsAssumption DEF Revised
  <2>2. Calls'
    BY <1>1, IdleCarries, CallsCarry DEF Save
  <2> QED BY <2>1, <2>2, RewritesKeepInv DEF Moves, Revised
<1>2. ASSUME NEW x \in Submission, Withdraw(x) PROVE SuggestionsInv' /\ Moves
  <2>1. Withdrawn(x)
    BY <1>2, WithdrawRewrites DEF Withdrawn
  <2>2. Calls'
    BY <1>2 DEF Withdraw, Calls, SuggestionsInv, Carried
  <2> QED BY <2>1, <2>2, RewritesKeepInv DEF Moves, Withdrawn
<1> QED BY <1>1, <1>2

\* What a request reads before it has anything to write.
LEMMA ReadersKeepInv ==
  ASSUME SuggestionsInv
  PROVE  /\ \A c \in Contributor, s \in Submission, type \in {"new_album", "catalog_correction"},
              target \in Album \cup {NoAlbum}, refs \in Payload :
              Compose(c, s, type, target, refs) => SuggestionsInv' /\ UNCHANGED db
         /\ \A c \in Moderator : PlanItem(c) => SuggestionsInv' /\ UNCHANGED db
         /\ \A c \in Moderator, s \in Submission : LoadQueue(c, s) => SuggestionsInv' /\ UNCHANGED db
         /\ \A c \in Moderator, found \in Payload : ReadInBulk(c, found) => SuggestionsInv' /\ UNCHANGED db
         /\ \A c \in Moderator, s \in Submission, a \in Album \cup {NoAlbum}, confirm, applied \in BOOLEAN, found \in Payload :
              ReadToApprove(c, s, a, confirm, found, applied) => SuggestionsInv' /\ UNCHANGED db
         /\ \A c \in Client : GiveUp(c) => SuggestionsInv' /\ UNCHANGED db
<1>1. Payload \subseteq SUBSET Ref
  BY DEF Payload
<1>2. ASSUME NEW c \in Contributor, NEW s \in Submission, NEW type \in {"new_album", "catalog_correction"},
             NEW target \in Album \cup {NoAlbum}, NEW refs \in Payload, Compose(c, s, type, target, refs)
      PROVE  SuggestionsInv' /\ UNCHANGED db
  <2>1. Calls'
    BY <1>1, <1>2, ComposeCarries
  <2>2. UNCHANGED <<db, tx>>
    BY <1>2 DEF Compose
  <2> QED BY <2>1, <2>2, ReadsKeepInv
<1>3. ASSUME NEW c \in Moderator, PlanItem(c) PROVE SuggestionsInv' /\ UNCHANGED db
  <2> DEFINE v == [call[c] EXCEPT !.pc = "planned"]
  <2>1. call' = [call EXCEPT ![c] = v] /\ UNCHANGED <<db, tx>> /\ call[c].pc = "looked"
    BY <1>3 DEF PlanItem
  <2>2. Carried(call[c]) /\ DOMAIN call = Client
    BY SuggestionsAssumption DEF SuggestionsInv
  <2>3. v.pc = "planned" \/ v.pc = "looked"
    BY <2>1
  <2>4. v.sub = call[c].sub
    OBVIOUS
  <2>5. call[c].sub \in Submission
    BY <2>1, <2>2 DEF Carried
  <2> HIDE DEF v
  <2>6. Carried(v)
    BY <2>3, <2>4, <2>5 DEF Carried
  <2> QED BY <2>1, <2>6, CallsCarry, ReadsKeepInv
<1>4. ASSUME NEW c \in Moderator, NEW s \in Submission, LoadQueue(c, s) PROVE SuggestionsInv' /\ UNCHANGED db
  <2> DEFINE v == [pc |-> "looked", sub |-> s, seen |-> db[SubmissionDoc(s)].rev]
  <2>1. call' = [call EXCEPT ![c] = v] /\ UNCHANGED <<db, tx>>
    BY <1>4 DEF LoadQueue
  <2>2. Carried(v)
    BY DEF Carried
  <2> HIDE DEF v
  <2> QED BY <2>1, <2>2, CallsCarry, ReadsKeepInv
<1>5. ASSUME NEW c \in Moderator, NEW found \in Payload, ReadInBulk(c, found) PROVE SuggestionsInv' /\ UNCHANGED db
  <2>1. call[c].pc = "planned" /\ Preliminary(c, call[c].sub, call[c].seen, NoAlbum, FALSE, found, TRUE)
    BY <1>5 DEF ReadInBulk
  <2>2. call[c].sub \in Submission
    BY <2>1, SuggestionsAssumption DEF SuggestionsInv, Carried
  <2>3. Calls' /\ UNCHANGED <<db, tx>>
    BY <1>1, <2>1, <2>2, PreliminaryCarries
  <2> QED BY <2>3, ReadsKeepInv
<1>6. ASSUME NEW c \in Moderator, NEW s \in Submission, NEW a \in Album \cup {NoAlbum}, NEW confirm \in BOOLEAN,
             NEW applied \in BOOLEAN, NEW found \in Payload, ReadToApprove(c, s, a, confirm, found, applied)
      PROVE  SuggestionsInv' /\ UNCHANGED db
  <2>1. Preliminary(c, s, 0, a, confirm, found, applied)
    BY <1>6 DEF ReadToApprove
  <2>2. Calls' /\ UNCHANGED <<db, tx>>
    BY <1>1, <2>1, PreliminaryCarries
  <2> QED BY <2>2, ReadsKeepInv
<1>7. ASSUME NEW c \in Client, GiveUp(c) PROVE SuggestionsInv' /\ UNCHANGED db
  <2>1. call' = [call EXCEPT ![c] = Idle] /\ UNCHANGED <<db, tx>>
    BY <1>7 DEF GiveUp
  <2> QED BY <2>1, IdleCarries, CallsCarry, ReadsKeepInv
<1> QED BY <1>2, <1>3, <1>4, <1>5, <1>6, <1>7

\* What a moderator's request does in its transaction.
LEMMA ModeratorsKeepInv ==
  ASSUME SuggestionsInv, NEW c \in Moderator
  PROVE  /\ ApproveNewAlbum(c) \/ ApproveCorrection(c) \/ Command(c) => SuggestionsInv' /\ Decided(c)
         /\ BeginApproval(c) \/ RetryRequest(c) \/ RefuseRequest(c) => SuggestionsInv' /\ UNCHANGED db
         /\ \A s \in Submission, st \in {"needs_changes", "rejected", "duplicate"}, of \in Submission :
              BeginCommand(c, s, st, of) => SuggestionsInv' /\ UNCHANGED db
<1>1. ASSUME ApproveNewAlbum(c) \/ ApproveCorrection(c) \/ Command(c) PROVE SuggestionsInv' /\ Decided(c)
  <2>1. c \in OpenClients
    BY <1>1 DEF ApproveNewAlbum, ApproveCorrection, Command, Running
  <2>2. Ready(c)
    BY <2>1 DEF Ready, SuggestionsInv
  <2>3. Decided(c)
    BY <1>1, <2>2, NewAlbumDecides, CorrectionDecides, CommandDecides DEF Decided
  <2> QED BY <2>3, DecisionsKeepInv DEF Decided
<1>2. ASSUME BeginApproval(c) PROVE SuggestionsInv' /\ UNCHANGED db
  <2>1. call[c].pc = "read" /\ Begin(c, call[c].req) /\ call' = [call EXCEPT ![c] = Idle]
    BY <1>2 DEF BeginApproval
  <2>2. call[c].req \in Request /\ c \in Client
    BY <2>1, SuggestionsAssumption DEF SuggestionsInv, Carried
  <2>3. /\ Transactions' /\ db' = db /\ c \notin OpenClients /\ OpenClients' = OpenClients \cup {c}
        /\ tx'[c] = Fresh(call[c].req) /\ \A x \in OpenClients : tx'[x] = tx[x]
    BY <2>1, <2>2, BeginKeepsTransactions DEF SuggestionsInv
  <2>4. Calls'
    BY <2>1, IdleCarries, CallsCarry
  <2> QED BY <2>2, <2>3, <2>4, FreshIsOpen
<1>3. ASSUME NEW s \in Submission, NEW st \in {"needs_changes", "rejected", "duplicate"}, NEW of \in Submission,
             BeginCommand(c, s, st, of)
      PROVE  SuggestionsInv' /\ UNCHANGED db
  <2> DEFINE q == [op |-> "command", sub |-> s, to |-> st, of |-> of, rev |-> db[SubmissionDoc(s)].rev]
  <2>1. Begin(c, q) /\ UNCHANGED call
    BY <1>3 DEF BeginCommand
  <2>2. db[SubmissionDoc(s)].rev \in 0..MaxRevision
    BY SubmissionFields DEF SuggestionsInv, SoundCatalog, TypedCatalog
  <2>3. q \in Request /\ c \in Client
    BY <2>2, SuggestionsAssumption DEF Request
  <2> HIDE DEF q
  <2>4. /\ Transactions' /\ db' = db /\ c \notin OpenClients /\ OpenClients' = OpenClients \cup {c}
        /\ tx'[c] = Fresh(q) /\ \A x \in OpenClients : tx'[x] = tx[x]
    BY <2>1, <2>3, BeginKeepsTransactions DEF SuggestionsInv
  <2>5. Calls'
    BY <2>1 DEF Calls, SuggestionsInv, Carried
  <2> QED BY <2>3, <2>4, <2>5, FreshIsOpen
<1>4. ASSUME RetryRequest(c) PROVE SuggestionsInv' /\ UNCHANGED db
  <2>1. /\ Transactions' /\ db' = db /\ c \in OpenClients /\ OpenClients' = OpenClients
        /\ tx'[c] = Fresh(tx[c].req) /\ \A x \in OpenClients \ {c} : tx'[x] = tx[x]
    BY <1>4, RetryKeepsTransactions DEF RetryRequest, SuggestionsInv
  <2>2. tx[c].req \in Request /\ OpenClients' = OpenClients \cup {c}
    BY <2>1 DEF SuggestionsInv
  <2>3. Calls'
    BY <1>4 DEF RetryRequest, Calls, SuggestionsInv, Carried
  <2> QED BY <2>1, <2>2, <2>3, FreshIsOpen
<1>5. ASSUME RefuseRequest(c) PROVE SuggestionsInv' /\ UNCHANGED db
  <2>1. tx' = [x \in OpenClients \ {c} |-> tx[x]] /\ db' = db /\ UNCHANGED call
    BY <1>5 DEF RefuseRequest, Abort
  <2>2. Transactions' /\ OpenClients' = OpenClients \ {c} /\ \A x \in OpenClients \ {c} : tx'[x] = tx[x]
    BY <2>1, DropKeepsTransactions DEF SuggestionsInv
  <2> QED BY <2>1, <2>2 DEF SuggestionsInv, Carried
<1> QED BY <1>1, <1>2, <1>3, <1>4, <1>5

\* Every step keeps the invariant, and is one of those.
LEMMA StepsKeepInv ==
  ASSUME SuggestionsInv, [SuggestionsNext]_suggestionVars
  PROVE  SuggestionsInv' /\ Moves
<1>1. CASE SuggestionsNext
  <2>1. CASE (\E s \in Submission : Withdraw(s)) \/ (\E c \in Contributor : Save(c))
    BY <2>1, ContributorsKeepInv
  <2>2. CASE \E c \in Contributor, s \in Submission, refs \in Payload :
               \/ Compose(c, s, "new_album", NoAlbum, refs)
               \/ \E a \in Album : Compose(c, s, "catalog_correction", a, refs)
    BY <2>2, ReadersKeepInv DEF Moves
  <2>3. CASE \E c \in Moderator : \/ BeginApproval(c) \/ ApproveNewAlbum(c) \/ ApproveCorrection(c) \/ Command(c)
                                  \/ RetryRequest(c) \/ RefuseRequest(c)
    BY <2>3, ModeratorsKeepInv DEF Moves
  <2>4. CASE \E c \in Moderator : PlanItem(c) \/ \E found \in Payload : ReadInBulk(c, found)
    BY <2>4, ReadersKeepInv DEF Moves
  <2>5. CASE \E c \in Moderator, s \in Submission :
               \/ LoadQueue(c, s)
               \/ \E a \in Album \cup {NoAlbum}, confirm, applied \in BOOLEAN, found \in Payload :
                    ReadToApprove(c, s, a, confirm, found, applied)
    BY <2>5, ReadersKeepInv DEF Moves
  <2>6. CASE \E c \in Moderator, s \in Submission :
               \/ \E st \in {"needs_changes", "rejected"} : BeginCommand(c, s, st, s)
               \/ \E of \in Submission \ {s} : BeginCommand(c, s, "duplicate", of)
    BY <2>6, ModeratorsKeepInv DEF Moves
  <2>7. CASE \E c \in Client : GiveUp(c)
    BY <2>7, ReadersKeepInv DEF Moves
  <2> QED BY <1>1, <2>1, <2>2, <2>3, <2>4, <2>5, <2>6, <2>7, Zenon DEF SuggestionsNext
<1>2. CASE UNCHANGED suggestionVars
  <2>1. UNCHANGED <<db, tx, call>>
    BY <1>2 DEF suggestionVars
  <2>2. Calls'
    BY <2>1 DEF Calls, SuggestionsInv, Carried
  <2> QED BY <2>1, <2>2, ReadsKeepInv DEF Moves
<1> QED BY <1>1, <1>2

\* A catalog of one imported album, and a moderation queue that nobody has written to, is sound.
LEMMA FirstCatalogIsSound ==
  ASSUME SuggestionsInit
  PROVE  SuggestionsInv
<1>1. DOMAIN db = CatalogDocs
  BY DEF SuggestionsInit
<1>2. ASSUME NEW x \in Submission PROVE db[SubmissionDoc(x)] = Unmade
  BY DocsAreDocs DEF SuggestionsInit, SubmissionDocs
<1>3. ASSUME NEW r \in Ref PROVE db[RefDoc(r)] = NoAlbum
  <2>1. RefDoc(r) \in CatalogDocs /\ RefDoc(r) \in RefDocs /\ RefDoc(r) \notin SubmissionDocs
    BY DocsAreDocs, DocsApart DEF RefDocs, SubmissionDocs
  <2> QED BY <2>1 DEF SuggestionsInit
<1>4. ASSUME NEW x \in Submission, NEW n \in Revision, NEW st \in Decision PROVE db[NoteDoc(x, n, st)] = FALSE
  <2>1. NoteDoc(x, n, st) \in CatalogDocs /\ NoteDoc(x, n, st) \in NoteDocs
    BY DocsAreDocs DEF NoteDocs
  <2>2. NoteDoc(x, n, st) \notin RefDocs /\ NoteDoc(x, n, st) \notin SubmissionDocs
    BY DocsApart DEF RefDocs, SubmissionDocs
  <2> QED BY <2>1, <2>2 DEF SuggestionsInit
<1>5. ASSUME NEW a \in Album
      PROVE  db[AlbumDoc(a)] = IF a = Imported THEN [rev |-> 1, refs |-> {}] ELSE NoEntry
  <2>1. AlbumDoc(a) \in CatalogDocs /\ AlbumDoc(a) \notin SubmissionDocs /\ AlbumDoc(a) \notin RefDocs
    BY DocsAreDocs, DocsApart DEF RefDocs, SubmissionDocs
  <2>2. AlbumDoc(a) \notin NoteDocs
    BY DocsApart DEF NoteDocs
  <2>3. AlbumDoc(a) = AlbumDoc(Imported) <=> a = Imported
    BY DocsApart
  <2> QED BY <2>1, <2>2, <2>3 DEF SuggestionsInit
<1>6. /\ Unmade \in SubmissionType /\ Whole(Unmade) /\ Unmade.status = "absent" /\ Unmade.published = "no"
      /\ Unmade.status \notin Decision
  BY SuggestionsAssumption DEF Unmade, SubmissionType, Whole, Decision, Settled
<1>7. \A a \in Album : db[AlbumDoc(a)].refs = {} /\ db[AlbumDoc(a)] \in [rev: 0..MaxCatalog, refs: SUBSET Ref]
  BY <1>5, SuggestionsAssumption DEF NoEntry
<1>8. TypedCatalog(db)
  BY <1>1, <1>2, <1>3, <1>6, <1>7 DEF TypedCatalog
<1>9. ASSUME NEW x \in Submission PROVE Whole(db[SubmissionDoc(x)]) /\ Kept(db, db[SubmissionDoc(x)]) /\ Told(db, x)
  BY <1>2, <1>4, <1>6 DEF Kept, Told
<1>10. ASSUME NEW a \in Album PROVE Indexed(db, a)
  BY <1>3, <1>7, SuggestionsAssumption DEF Indexed, Album
<1>11. ASSUME NEW a \in Moderator PROVE MadeOnce(db, a)
  <2>1. Creations(db, a) = {}
    BY <1>2, <1>6 DEF Creations
  <2>2. db[AlbumDoc(a)].rev = 0
    BY <1>5, SuggestionsAssumption DEF Album, NoEntry
  <2> QED BY <2>1, <2>2 DEF MadeOnce
<1>12. SoundCatalog(db)
  BY <1>8, <1>9, <1>10, <1>11 DEF SoundCatalog
<1>13. Transactions /\ OpenClients = {}
  BY DEF SuggestionsInit, Transactions, SnapshotShape, SnapshotsAreCurrent, OpenClients
<1>14. DOMAIN call = Client /\ \A c \in Client : Carried(call[c])
  BY IdleCarries DEF SuggestionsInit
<1> QED BY <1>12, <1>13, <1>14 DEF SuggestionsInv

(***************************************************************************)
(* The theorems                                                            *)
(***************************************************************************)
\* The invariant holds in every state: a decision that commits has seen what it
\* depends on, however many moderators decide at once.
THEOREM SuggestionsInvariant == SuggestionsSpec => []SuggestionsInv
<1>1. SuggestionsInit => SuggestionsInv
  BY FirstCatalogIsSound
<1>2. SuggestionsInv /\ [SuggestionsNext]_suggestionVars => SuggestionsInv'
  BY StepsKeepInv
<1> QED BY <1>1, <1>2, PTL DEF SuggestionsSpec

\* Suggestions, albums and transactions have their types, for any number of requests.
THEOREM SuggestionsAreTyped == SuggestionsSpec => []SuggestionsTypeOK
<1>1. SuggestionsInv => SuggestionsTypeOK
  BY DEF SuggestionsInv, SuggestionsTypeOK, SoundCatalog, TypedCatalog, Transactions
<1> QED BY <1>1, SuggestionsInvariant, PTL

\* The catalog keeps its word: an album has what was approved for it, a moderator's
\* request created its album by exactly one approval, and no reference identifies
\* two albums.
THEOREM CatalogKeepsWhatWasApproved == SuggestionsSpec => []CatalogKeepsItsWord
<1>1. SuggestionsInv => CatalogKeepsItsWord
  <2> SUFFICES ASSUME SuggestionsInv PROVE CatalogKeepsItsWord
    OBVIOUS
  <2>1. SoundCatalog(db)
    BY DEF SuggestionsInv
  <2>2. ASSUME NEW s \in Submission, Sub(s).status = "approved"
        PROVE  db[AlbumDoc(Sub(s).album)].rev > 0 /\ Sub(s).applied \subseteq db[AlbumDoc(Sub(s).album)].refs
    BY <2>1, <2>2 DEF SoundCatalog, Kept, Sub
  <2>3. ASSUME NEW a \in Moderator
        PROVE  Cardinality({ s \in Submission : Sub(s).published = "created" /\ Sub(s).album = a })
                 = IF db[AlbumDoc(a)].rev > 0 THEN 1 ELSE 0
    <3>1. { s \in Submission : Sub(s).published = "created" /\ Sub(s).album = a } = Creations(db, a)
      BY DEF Creations, Sub
    <3>2. MadeOnce(db, a)
      BY <2>1 DEF SoundCatalog
    <3>3. CASE Creations(db, a) = {}
      BY <3>1, <3>2, <3>3, FS_EmptySet DEF MadeOnce
    <3>4. CASE Creations(db, a) # {}
      <4>1. PICK x \in Creations(db, a) : Creations(db, a) = {x}
        BY <3>2, <3>4 DEF MadeOnce
      <4> QED BY <3>1, <3>2, <3>4, <4>1, FS_Singleton DEF MadeOnce
    <3> QED BY <3>3, <3>4
  <2>4. ASSUME NEW a \in Album, NEW b \in Album, a # b
        PROVE  db[AlbumDoc(a)].refs \cap db[AlbumDoc(b)].refs = {}
    <3>1. Indexed(db, a) /\ Indexed(db, b) /\ db[AlbumDoc(a)].refs \subseteq Ref
      BY <2>1 DEF SoundCatalog, TypedCatalog
    <3> QED BY <3>1, <2>4 DEF Indexed
  <2> QED BY <2>2, <2>3, <2>4 DEF CatalogKeepsItsWord
<1> QED BY <1>1, SuggestionsInvariant, PTL

\* Contributors were told of every decision that stands, and of no final one that does not.
THEOREM ContributorsKnow == SuggestionsSpec => []ContributorsAreTold
<1>1. SuggestionsInv => ContributorsAreTold
  BY DEF SuggestionsInv, SoundCatalog, Told, ContributorsAreTold, Sub
<1> QED BY <1>1, SuggestionsInvariant, PTL

\* A final decision stands, and every decision is about the revision that the
\* deciding request read, in whatever order contributors and moderators write.
THEOREM DecisionsAreAboutWhatWasRead == SuggestionsSpec => DecisionsAreInformed
<1>1. SuggestionsInv /\ [SuggestionsNext]_suggestionVars => [DecisionIsInformed]_suggestionVars
  <2> SUFFICES ASSUME SuggestionsInv, [SuggestionsNext]_suggestionVars, NEW s \in Submission
               PROVE  /\ Sub(s).status \in Settled => Sub(s)' = Sub(s)
                      /\ Sub(s).status = "pending" /\ Sub(s)'.status \in Decision =>
                           \E c \in OpenClients : /\ c \notin OpenClients' /\ tx[c].req.sub = s
                                                  /\ tx[c].req.rev = Sub(s).rev
    BY DEF DecisionIsInformed
  <2>1. Moves
    BY StepsKeepInv
  <2>2. Sub(s) = db[SubmissionDoc(s)] /\ Sub(s)' = db'[SubmissionDoc(s)]
    BY DEF Sub
  <2>3. ASSUME NEW c, NEW k, DecidedBy(c, k)
        PROVE  /\ Sub(s).status \in Settled => Sub(s)' = Sub(s)
               /\ Sub(s).status = "pending" /\ Sub(s)'.status \in Decision =>
                    c \in OpenClients /\ c \notin OpenClients' /\ tx[c].req.sub = s /\ tx[c].req.rev = Sub(s).rev
    <3> DEFINE x == tx[c].req.sub
    <3>1. /\ c \in OpenClients /\ c \notin OpenClients' /\ Decides(db, db', x, k) /\ tx[c].req.rev = db[SubmissionDoc(x)].rev
      BY <2>3 DEF DecidedBy, FallBehind
    <3>2. x \in Submission /\ db[SubmissionDoc(x)].status = "pending"
      BY <3>1 DEF Decides
    <3>3. s # x => db'[SubmissionDoc(s)] = db[SubmissionDoc(s)]
      BY <3>1 DEF Decides, Settles
    <3>4. CASE s = x
      BY <3>1, <3>2, <3>4, <2>2 DEF Settled
    <3>5. CASE s # x
      BY <3>3, <3>5, <2>2 DEF Decision
    <3> QED BY <3>4, <3>5
  <2>4. ASSUME NEW x \in Submission, Revised(x) \/ Withdrawn(x)
        PROVE  /\ Sub(s).status \in Settled => Sub(s)' = Sub(s)
               /\ ~(Sub(s).status = "pending" /\ Sub(s)'.status \in Decision)
    <3>1. PICK k : /\ RewrittenAs(x, k) /\ db[SubmissionDoc(x)].status \in {"absent", "needs_changes", "pending"}
                   /\ k.status = "withdrawn" \/ db[SubmissionDoc(x)].status # "pending"
      BY <2>4 DEF Revised, Withdrawn
    <3>2. /\ db'[SubmissionDoc(x)] = k
          /\ \A y \in Submission \ {x} : db'[SubmissionDoc(y)] = db[SubmissionDoc(y)]
      BY <3>1, ReplacingKeepsCatalogs DEF RewrittenAs, SuggestionsInv
    <3>3. CASE s = x
      BY <3>1, <3>2, <3>3, <2>2 DEF Settled, Decision
    <3>4. CASE s # x
      BY <3>2, <3>4, <2>2 DEF Decision
    <3> QED BY <3>3, <3>4
  <2>5. ASSUME UNCHANGED db PROVE Sub(s)' = Sub(s) /\ ~(Sub(s).status = "pending" /\ Sub(s)'.status \in Decision)
    BY <2>5, <2>2 DEF Decision
  <2> QED BY <2>1, <2>3, <2>4, <2>5 DEF Moves, Decided
<1> QED BY <1>1, SuggestionsInvariant, PTL DEF SuggestionsSpec, DecisionsAreInformed
=============================================================================
