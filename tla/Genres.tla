------------------------------- MODULE Genres -------------------------------
(***************************************************************************)
(* The genre vocabulary, the genres of an album, and the suggestions, the  *)
(* moderators' commands, the merges and the seeds that change them.        *)
(*                                                                         *)
(* A genre has a name and aliases in one namespace, at most one parent,    *)
(* and a revision.  A name stands for its matching key and its slug; the   *)
(* unique indexes are on the names and the slugs of genres, not on their   *)
(* aliases.  An album holds its genres in order, retired ones included.    *)
(* A suggestion adds one genre at most and removes one at most; a seed has *)
(* one genre.  Skipping an operation or promoting a genre that the album   *)
(* has is left out.                                                        *)
(***************************************************************************)
EXTENDS SnapshotTransactions, Orders, FiniteSets, TLC

CONSTANTS Seeded,          \* the genres that the vocabulary starts with
          Album,           \* the albums
          Suggestion,      \* genre suggestions that one contributor may make
          Name,            \* matching keys
          NameOf,          \* the name of each seeded genre
          GenresOf,        \* the genres that each album starts with
          None,
          MaxGenres,       \* MAX_ALBUM_GENRES
          MaxRequests,     \* bound on the operators' and moderators' requests
          MaxRevision      \* bound on a suggestion's revisions

GenresAssumption ==
  /\ NameOf \in [Seeded -> Name] /\ None \notin Seeded \cup Client \cup Name
  /\ Seeded \cap Client = {} /\ GenresOf \in [Album -> Seq(Seeded)]
  /\ MaxGenres \in Nat \ {0} /\ MaxRequests \in Nat /\ MaxRevision \in Nat \ {0}

VARIABLE requests
genreVars == <<db, tx, requests>>

Genre == Seeded \cup Client               \* a genre is named by the request that creates it
GenreDoc(g)   == <<"genre", g>>
NameDoc(n)    == <<"name", n>>                              \* the entry of the unique index
EventDoc(g)   == <<"events", g>>                            \* how many GenreEvents the genre has
AlbumDoc(a)   == <<"album", a>>
SuggestionDoc(s) == <<"suggestion", s>>
KeyDoc(a)     == <<"open", a>>                              \* openGenreSuggestionKey
GenreDocs == { GenreDoc(g) : g \in Genre }

NoGenre == [status |-> "absent", name |-> None, aliases |-> {}, parent |-> None, rev |-> 0]
Unmade  == [status |-> "absent", rev |-> 0, album |-> None,
            add |-> None, new |-> None, primary |-> FALSE, remove |-> None]
Open    == {"pending", "needs_changes"}

Active(t, g)   == t[GenreDoc(g)].status = "active"
Exists(t, g)   == t[GenreDoc(g)].status # "absent"
NamesOf(t, g)  == (t[GenreDoc(g)].aliases \cup {t[GenreDoc(g)].name}) \ {None}
\* nameOwner: the genres other than g with the name, retired ones included.
Owners(t, n, g)  == { h \in Genre \ {g} : n \in NamesOf(t, h) }
ActiveChildren(t, g) == { h \in Genre : Active(t, h) /\ t[GenreDoc(h)].parent = g }
Top(t, g)        == Active(t, g) /\ t[GenreDoc(g)].parent = None

Running(c, op) == c \in OpenClients /\ tx[c].req.op = op
Finish(c, t) == Commit(c, t) /\ UNCHANGED requests
Requested == requests < MaxRequests /\ requests' = requests + 1

\* A vocabulary change: the genre's next value, and one event about it. The event
\* is a new document, so it conflicts with nothing the genre does not.
Changes(t, g, v) == [t EXCEPT ![GenreDoc(g)] = [v EXCEPT !.rev = t[GenreDoc(g)].rev + 1],
                              ![EventDoc(g)] = @ + 1]
Creates(t, g, n, aliases, p) ==
  [t EXCEPT ![GenreDoc(g)] = [status |-> "active", name |-> n, aliases |-> aliases, parent |-> p, rev |-> 0],
            ![EventDoc(g)] = 1, ![NameDoc(n)] = g]

(***************************************************************************)
(* Moderators' commands                                                    *)
(***************************************************************************)
\* planCommand. A command whose checks fail has no plan.
Renamed(t, g, n) ==
  LET v == t[GenreDoc(g)] IN
  [[t EXCEPT ![NameDoc(v.name)] = None] EXCEPT ![NameDoc(n)] = g,
     ![GenreDoc(g)] = [v EXCEPT !.name = n, !.aliases = (@ \cup {v.name}) \ {n}]]
CommandAllowed(t, g, op, arg) ==
  CASE op = "rename"  -> Active(t, g) /\ arg # t[GenreDoc(g)].name /\ Owners(t, arg, g) = {}
    [] op = "alias"   -> Active(t, g) /\ arg \notin NamesOf(t, g) /\ Owners(t, arg, g) = {}
    [] op = "parent"  -> /\ Active(t, g) /\ arg # t[GenreDoc(g)].parent
                         /\ arg # None => arg # g /\ Top(t, arg) /\ ActiveChildren(t, g) = {}
    [] op = "retire"  -> Active(t, g) /\ ActiveChildren(t, g) = {}
    [] op = "restore" -> /\ t[GenreDoc(g)].status = "retired"
                         /\ \A n \in NamesOf(t, g) : Owners(t, n, g) = {}
                         /\ t[GenreDoc(g)].parent # None => Top(t, t[GenreDoc(g)].parent)
CommandResult(t, g, op, arg) ==
  LET v == t[GenreDoc(g)] IN
  CASE op = "rename"  -> Changes(Renamed(t, g, arg), g, Renamed(t, g, arg)[GenreDoc(g)])
    [] op = "alias"   -> Changes(t, g, [v EXCEPT !.aliases = @ \cup {arg}])
    [] op = "parent"  -> Changes(t, g, [v EXCEPT !.parent = arg])
    [] op = "retire"  -> Changes(t, g, [v EXCEPT !.status = "retired"])
    [] op = "restore" -> Changes(t, g, [v EXCEPT !.status = "active"])

\* Only requests that their first snapshot lets through are begun: the others
\* answer with an error and leave no trace.
BeginCommand(c, g, op, arg) ==
  /\ Requested /\ CommandAllowed(db, g, op, arg)
  /\ Begin(c, [op |-> "command", genre |-> g, what |-> op, arg |-> arg, expected |-> db[GenreDoc(g)].rev])
RunCommand(c) ==
  /\ Running(c, "command")
  /\ LET t == tx[c].snap  req == tx[c].req
     IN  /\ t[GenreDoc(req.genre)].rev = req.expected
         /\ CommandAllowed(t, req.genre, req.what, req.arg)
         /\ Finish(c, CommandResult(t, req.genre, req.what, req.arg))

(***************************************************************************)
(* Merges                                                                  *)
(***************************************************************************)
MergedGenres(seq, from, into) ==
  IF from \notin Elements(seq) THEN seq
  ELSE IF into \in Elements(seq) THEN Without(seq, from)
  ELSE [i \in DOMAIN seq |-> IF seq[i] = from THEN into ELSE seq[i]]
\* What the plan's checksum covers: planGenreMerge.
Plan(t, from, into) ==
  [from |-> t[GenreDoc(from)], into |-> t[GenreDoc(into)].rev,
   albums |-> [a \in { x \in Album : from \in Elements(t[AlbumDoc(x)].genres) } |-> t[AlbumDoc(a)]],
   aliases |-> NamesOf(t, from) \ NamesOf(t, into)]
BeginMerge(c, from, into) ==
  /\ Requested /\ from # into /\ Exists(db, from) /\ Active(db, into) /\ ActiveChildren(db, from) = {}
  /\ Begin(c, [op |-> "merge", from |-> from, into |-> into, plan |-> Plan(db, from, into)])
AlbumsAfterMerge(t, from, into) == [a \in Album |-> MergedGenres(t[AlbumDoc(a)].genres, from, into)]
ApplyMerge(c) ==
  /\ Running(c, "merge")
  /\ LET t == tx[c].snap  from == tx[c].req.from  into == tx[c].req.into
         plan == Plan(t, from, into)
         after == AlbumsAfterMerge(t, from, into)
         moved == IF plan.aliases = {} THEN t
                  ELSE Changes(t, into, [t[GenreDoc(into)] EXCEPT !.aliases = @ \cup plan.aliases])
         retired == Changes(moved, from, [t[GenreDoc(from)] EXCEPT !.status = "retired"])
     IN  /\ plan = tx[c].req.plan
         /\ Active(t, into) /\ ActiveChildren(t, from) = {}
         /\ Finish(c, [d \in { AlbumDoc(a) : a \in DOMAIN plan.albums } |->
                        [genres |-> after[d[2]], rev |-> t[d].rev + 1]] @@ retired)

(***************************************************************************)
(* The seed: a dataset of one new genre, whose parent is an existing one   *)
(***************************************************************************)
BeginSeed(c, n, p) ==
  /\ Requested /\ ~Exists(db, c) /\ Owners(db, n, c) = {} /\ (p # None => Exists(db, p))
  /\ Begin(c, [op |-> "seed", name |-> n, parent |-> p])
ApplySeed(c) ==
  /\ Running(c, "seed")
  /\ LET t == tx[c].snap  req == tx[c].req
     IN  /\ ~Exists(t, c) /\ Owners(t, req.name, c) = {}
         /\ req.parent # None => Exists(t, req.parent)
         /\ Finish(c, Creates(t, c, req.name, {}, req.parent))

(***************************************************************************)
(* Suggestions                                                             *)
(***************************************************************************)
\* normalizeGenreSuggestion: a name that is known becomes its genre.
Normalized(t, a, op) ==
  LET seq == t[AlbumDoc(a)].genres
      kept == { g \in Elements(seq) : Active(t, g) } \ {op.remove}
  IN  /\ op.add # None => Active(t, op.add) /\ op.add \notin Elements(seq) \cup {op.remove} /\ op.new = None
      /\ op.new # None => Owners(t, op.new, None) = {}
      /\ op.remove # None => op.remove \in Elements(seq)
      /\ op.primary => op.add # None \/ op.new # None
      /\ op.add # None \/ op.new # None \/ op.remove # None
      /\ Cardinality(kept) + (IF op.add = None /\ op.new = None THEN 0 ELSE 1) <= MaxGenres
Suggest(s, a, op) ==
  /\ db[SuggestionDoc(s)].status = "absent" /\ db[KeyDoc(a)] = None
  /\ Normalized(db, a, op)
  /\ Write([db EXCEPT ![SuggestionDoc(s)] = [status |-> "pending", rev |-> 1, album |-> a] @@ op,
                      ![KeyDoc(a)] = s])
  /\ UNCHANGED requests
Revise(s, op) ==
  /\ db[SuggestionDoc(s)].status = "needs_changes" /\ db[SuggestionDoc(s)].rev < MaxRevision
  /\ Normalized(db, db[SuggestionDoc(s)].album, op)
  /\ Write([db EXCEPT ![SuggestionDoc(s)] =
              [status |-> "pending", rev |-> @.rev + 1, album |-> @.album] @@ op])
  /\ UNCHANGED requests

Closed(t, s, st) == [t EXCEPT ![SuggestionDoc(s)].status = st, ![KeyDoc(t[SuggestionDoc(s)].album)] = None]
\* Withdrawal, rejection and request for changes: one conditional write.
Withdraw(s) ==
  /\ db[SuggestionDoc(s)].status \in Open
  /\ Write(Closed(db, s, "withdrawn")) /\ UNCHANGED requests
Reject(s) ==
  /\ db[SuggestionDoc(s)].status = "pending" /\ Requested
  /\ Write(Closed(db, s, "rejected"))
RequestChanges(s) ==
  /\ db[SuggestionDoc(s)].status = "pending" /\ Requested
  /\ Write([db EXCEPT ![SuggestionDoc(s)].status = "needs_changes"])

(***************************************************************************)
(* Approval                                                                *)
(***************************************************************************)
\* applyDecisions: what must hold of the vocabulary for the decisions to be applied.
Resolvable(c, t, op, req) ==
  /\ req.how = "create" => ~Exists(t, c) /\ Owners(t, op.new, c) = {}
  /\ req.how = "map" => Active(t, req.onto) /\ (req.alias => Owners(t, op.new, req.onto) = {})
  /\ req.how = "accept" /\ op.add # None => Active(t, op.add)

\* The moderator's choice for a new name: create it, or map it onto a genre, with
\* or without the name as an alias. Removals and other additions are accepted.
BeginApproval(c, s, how, onto, alias) ==
  /\ Requested /\ db[SuggestionDoc(s)].status = "pending"
  /\ (how # "accept") <=> (db[SuggestionDoc(s)].new # None)
  /\ how # "map" => onto = None /\ ~alias
  /\ LET req == [op |-> "approve", sub |-> s, rev |-> db[SuggestionDoc(s)].rev,
                 how |-> how, onto |-> onto, alias |-> alias]
     IN  Resolvable(c, db, db[SuggestionDoc(s)], req) /\ Begin(c, req)

\* The genre that the addition comes down to, and the vocabulary after it.
Resolved(c, t, op) ==
  LET req == tx[c].req IN
  IF req.how = "create" THEN [genre |-> c, after |-> Creates(t, c, op.new, {}, None)]
  ELSE IF req.how = "map" /\ req.alias /\ op.new \notin NamesOf(t, req.onto)
  THEN [genre |-> req.onto,
        after |-> Changes(t, req.onto, [t[GenreDoc(req.onto)] EXCEPT !.aliases = @ \cup {op.new}])]
  ELSE [genre |-> IF req.how = "map" THEN req.onto ELSE op.add, after |-> t]
\* The stored list holds MaxGenres in all: retired ones go, last first.
Untrimmed(t, seq) == seq                                     \* slip: only active genres are counted
RetiredIn(t, seq) == { i \in DOMAIN seq : ~Active(t, seq[i]) }
Trimmed(t, seq) ==
  LET excess == IF Len(seq) > MaxGenres THEN Len(seq) - MaxGenres ELSE 0
      last(i) == Cardinality({ j \in RetiredIn(t, seq) : j >= i }) <= excess
  IN  SelectSeq(seq, LAMBDA g : Active(t, g) \/ ~last(CHOOSE i \in DOMAIN seq : seq[i] = g))
Applied(t, seq, op, g) ==
  LET kept   == IF op.remove \in Elements(seq) THEN Without(seq, op.remove) ELSE seq
      added  == IF g = None \/ g \in Elements(kept) THEN kept ELSE Append(kept, g)
      actives == SelectSeq(added, LAMBDA x : Active(t, x))
  IN  IF op.primary /\ g # None /\ actives[1] # g THEN <<g>> \o Without(added, g) ELSE added
Approve(c) ==
  /\ Running(c, "approve")
  /\ LET t == tx[c].snap  req == tx[c].req  s == req.sub  op == t[SuggestionDoc(s)]
         r == Resolved(c, t, op)
         before == t[AlbumDoc(op.album)]
         seq == Applied(r.after, before.genres, op, r.genre)
         after == Trimmed(r.after, seq)
     IN  /\ op.status = "pending" /\ op.rev = req.rev
         /\ Resolvable(c, t, op, req)
         /\ Cardinality({ g \in Elements(seq) : Active(r.after, g) }) <= MaxGenres
         /\ Finish(c, [Closed(r.after, s, "approved") EXCEPT
              ![AlbumDoc(op.album)] = IF after = before.genres THEN before
                                      ELSE [genres |-> after, rev |-> before.rev + 1]])

RetryRequest(c) == Retry(c) /\ UNCHANGED requests
\* A request that nobody interfered with is let through, as when it was begun.
RefuseRequest(c) == c \in OpenClients /\ tx[c].missed # {} /\ Abort(c) /\ UNCHANGED requests

(***************************************************************************)
(* The specification                                                       *)
(***************************************************************************)
GenresInit ==
  /\ db = [d \in GenreDocs |-> IF d[2] \in Seeded
             THEN [NoGenre EXCEPT !.status = "active", !.name = NameOf[d[2]]] ELSE NoGenre]
          @@ [d \in { EventDoc(g) : g \in Genre } |-> IF d[2] \in Seeded THEN 1 ELSE 0]
          @@ [d \in { NameDoc(n) : n \in Name } |->
                IF \E g \in Seeded : NameOf[g] = d[2] THEN CHOOSE g \in Seeded : NameOf[g] = d[2] ELSE None]
          @@ [d \in { AlbumDoc(a) : a \in Album } |-> [genres |-> GenresOf[d[2]], rev |-> 0]]
          @@ [d \in { SuggestionDoc(s) : s \in Suggestion } |-> Unmade]
          @@ [d \in { KeyDoc(a) : a \in Album } |-> None]
  /\ tx = [c \in {} |-> 0]
  /\ requests = 0

Operation == [add: Genre \cup {None}, new: Name \cup {None}, primary: BOOLEAN, remove: Genre \cup {None}]
GenresNext ==
  \/ \E s \in Suggestion :
       \/ Withdraw(s) \/ Reject(s) \/ RequestChanges(s)
       \/ \E op \in Operation : Revise(s, op) \/ \E a \in Album : Suggest(s, a, op)
  \/ \E c \in Client :
       \/ RunCommand(c) \/ ApplyMerge(c) \/ ApplySeed(c) \/ Approve(c) \/ RetryRequest(c) \/ RefuseRequest(c)
       \/ \E g \in Genre :
            \/ \E op \in {"rename", "alias"}, n \in Name : BeginCommand(c, g, op, n)
            \/ \E op \in {"retire", "restore"} : BeginCommand(c, g, op, None)
            \/ \E p \in Genre \cup {None} : BeginCommand(c, g, "parent", p)
            \/ \E into \in Genre : BeginMerge(c, g, into)
       \/ \E n \in Name, p \in Genre \cup {None} : BeginSeed(c, n, p)
       \/ \E s \in Suggestion :
            \/ \E how \in {"accept", "create"} : BeginApproval(c, s, how, None, FALSE)
            \/ \E onto \in Genre, alias \in BOOLEAN : BeginApproval(c, s, "map", onto, alias)
GenresSpec == GenresInit /\ [][GenresNext]_genreVars

(***************************************************************************)
(* Properties                                                              *)
(***************************************************************************)
GenresTypeOK ==
  /\ \A g \in Genre : db[GenreDoc(g)] \in [status: {"absent", "active", "retired"}, name: Name \cup {None},
        aliases: SUBSET Name, parent: Genre \cup {None}, rev: Nat]
  /\ \A a \in Album : /\ Elements(db[AlbumDoc(a)].genres) \subseteq Genre
                      /\ db[AlbumDoc(a)].rev \in Nat
  /\ \A s \in Suggestion : db[SuggestionDoc(s)].status \in {"absent", "approved", "rejected", "withdrawn"} \cup Open
  /\ SnapshotShape

\* An album never lists a genre twice or more than MAX_ALBUM_GENRES genres, and so
\* no restore of retired ones can take it over the limit.
AlbumsFitTheirGenres ==
  \A a \in Album : Injective(db[AlbumDoc(a)].genres) /\ Len(db[AlbumDoc(a)].genres) <= MaxGenres

\* The unique key is held by the one open suggestion of the album, and by nothing
\* once it is settled: a contributor is never locked out of an album.
OneOpenSuggestion ==
  \A a \in Album : { s \in Suggestion : db[SuggestionDoc(s)].album = a /\ db[SuggestionDoc(s)].status \in Open }
                     = IF db[KeyDoc(a)] = None THEN {} ELSE {db[KeyDoc(a)]}

\* Commands, merges and approvals count a genre's revision once for each event
\* after its creation, so that an expected revision tells of every change.
RevisionsTellVocabularyChanges ==
  \A g \in Genre : Exists(db, g) => db[EventDoc(g)] = db[GenreDoc(g)].rev + 1
=============================================================================
