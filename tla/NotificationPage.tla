--------------------------- MODULE NotificationPage ---------------------------
(* The notifications page of a recipient and the server behind it.  Pages,    *)
(* marks and the clearing of the list are requests that overtake each other;  *)
(* a generation counter tells the page whose answers still count.             *)
EXTENDS Naturals, Sequences, FiniteSets, SequencesExt

CONSTANTS MaxNotes,     \* bound on notifications, which are numbered as they arrive
          FirstNotes,   \* how many a visit finds
          PageSize,
          MaxRequests   \* bound on requests

NotificationPageAssumption ==
  {MaxNotes, FirstNotes, PageSize, MaxRequests} \subseteq Nat /\ PageSize > 0 /\ FirstNotes <= MaxNotes

VARIABLES notes,   \* on the server: each notification unread, read or cleared
          rows,    \* on the page: notifications, newest first
          cursor,  \* the last notification of the last page, or 0 at the end
          generation, session, loading, loadingMore, updating,
          sent,    \* the requests in flight, and their answers
          log      \* what the page has shown, marked and cleared, and how often it asked

screen   == <<rows, cursor, generation, session, loading, loadingMore, updating>>
pageVars == <<notes, screen, sent, log>>

(***************************************************************************)
(* The server                                                              *)
(***************************************************************************)
Live == { n \in DOMAIN notes : notes[n] # "cleared" }
Arrive ==
  /\ Len(notes) < MaxNotes /\ notes' = Append(notes, "unread")
  /\ UNCHANGED <<screen, sent, log>>

\* One row more than a page tells whether there is a next one.
Page(from) ==
  LET older == SetToSortSeq({ n \in Live : from = 0 \/ n < from }, >)
      more  == Len(older) > PageSize
      page  == SubSeq(older, 1, IF more THEN PageSize ELSE Len(older))
  IN  [rows |-> page, cursor |-> IF more THEN page[PageSize] ELSE 0,
       unread |-> { n \in ToSet(page) : notes[n] = "unread" }]
Marked(ids) == [n \in DOMAIN notes |-> IF n \in ids /\ notes[n] = "unread" THEN "read" ELSE notes[n]]
Cleared     == [n \in DOMAIN notes |-> "cleared"]

Answer(q) == [q EXCEPT !.served = TRUE]
ReadPage(q) ==
  /\ q.kind \in {"first", "more"} /\ ~q.served
  /\ sent' = (sent \ {q}) \cup {[Answer(q) EXCEPT !.page = Page(q.from)]}
  /\ UNCHANGED <<notes, screen, log>>
MarkRead(q) ==
  /\ q.kind \in {"mark", "markAll"} /\ ~q.served
  /\ notes' = Marked(IF q.kind = "mark" THEN q.ids ELSE DOMAIN notes)
  /\ sent' = (sent \ {q}) \cup {Answer(q)}
  /\ log' = IF q.kind = "markAll" THEN [log EXCEPT !.marked = DOMAIN notes] ELSE log
  /\ UNCHANGED screen
ClearNotifications(q) ==
  /\ q.kind = "clear" /\ ~q.served
  /\ notes' = Cleared /\ sent' = (sent \ {q}) \cup {Answer(q)}
  /\ UNCHANGED <<screen, log>>

(***************************************************************************)
(* The page                                                                *)
(***************************************************************************)
NoPage == [rows |-> <<>>, cursor |-> 0, unread |-> {}]
Query(kind, from, ids) ==
  [kind |-> kind, from |-> from, ids |-> ids, served |-> FALSE, page |-> NoPage,
   generation |-> generation', session |-> session', clearing |-> updating = "clear"]
MayAsk == log.asked < MaxRequests
Counted == [log EXCEPT !.asked = @ + 1]

\* The effect runs again when Clerk signs the recipient in or out, or renews
\* the session.  It leaves loadingMore alone.
SignIn ==
  /\ MayAsk /\ generation' = generation + 2 /\ session' = session + 1 /\ loading' = TRUE
  /\ sent' = sent \cup {Query("first", 0, {})}
  /\ log' = [Counted EXCEPT !.renewed = @ \/ loadingMore]
  /\ UNCHANGED <<notes, rows, cursor, loadingMore, updating>>
SignOut ==
  /\ MayAsk /\ generation' = generation + 2 /\ session' = session + 1 /\ loading' = FALSE /\ rows' = <<>>
  /\ log' = [Counted EXCEPT !.renewed = @ \/ loadingMore]
  /\ UNCHANGED <<notes, cursor, loadingMore, updating, sent>>

Listed == rows # <<>> /\ MayAsk
LoadMore ==
  /\ Listed /\ ~loading /\ updating = "no" /\ ~loadingMore /\ cursor # 0
  /\ loadingMore' = TRUE /\ UNCHANGED <<notes, rows, cursor, generation, session, loading, updating>>
  /\ sent' = sent \cup {Query("more", cursor, {})} /\ log' = Counted
MarkAllRead ==
  /\ Listed /\ updating = "no" /\ ~loadingMore
  /\ updating' = "mark" /\ UNCHANGED <<notes, rows, cursor, generation, session, loading, loadingMore>>
  /\ sent' = sent \cup {Query("markAll", 0, {})} /\ log' = Counted
\* Pages already in flight are invalidated before clearing.
ClearAll ==
  /\ Listed /\ updating = "no"
  /\ generation' = generation + 1 /\ loadingMore' = FALSE /\ updating' = "clear"
  /\ UNCHANGED <<notes, rows, cursor, session, loading>>
  /\ sent' = sent \cup {Query("clear", 0, {})} /\ log' = Counted

Shown(page) == [log EXCEPT !.shown = @ \cup ToSet(page.rows)]
\* What the page shows for the first time is marked read, by a request of its own.
MarkLoaded(q) ==
  sent' = (sent \ {q}) \cup (IF q.page.unread = {} THEN {} ELSE {Query("mark", 0, q.page.unread)})

\* An answer counts while its generation does.
AnyAnswer(q) == TRUE                        \* slip: every answer counts
Current(q)   == q.generation = generation
ReceiveFirst(q) ==
  /\ q.kind = "first" /\ q.served /\ UNCHANGED <<notes, generation, session, loadingMore, updating>>
  /\ loading' = IF q.session = session THEN FALSE ELSE loading
  /\ IF Current(q) THEN rows' = q.page.rows /\ cursor' = q.page.cursor /\ MarkLoaded(q) /\ log' = Shown(q.page)
     ELSE sent' = sent \ {q} /\ UNCHANGED <<rows, cursor, log>>
Unseen(page) == SelectSeq(page.rows, LAMBDA n : n \notin ToSet(rows))
ReceiveMore(q) ==
  /\ q.kind = "more" /\ q.served /\ UNCHANGED <<notes, generation, session, loading, updating>>
  /\ IF Current(q) THEN /\ rows' = rows \o Unseen(q.page) /\ cursor' = q.page.cursor /\ loadingMore' = FALSE
                        /\ MarkLoaded(q) /\ log' = Shown(q.page)
     ELSE sent' = sent \ {q} /\ UNCHANGED <<rows, cursor, loadingMore, log>>
ReceiveMark(q) ==
  /\ q.kind \in {"mark", "markAll"} /\ q.served /\ sent' = sent \ {q}
  /\ updating' = IF q.kind = "markAll" THEN "no" ELSE updating
  /\ UNCHANGED <<notes, rows, cursor, generation, session, loading, loadingMore, log>>
ReceiveClear(q) ==
  /\ q.kind = "clear" /\ q.served /\ sent' = sent \ {q}
  /\ rows' = <<>> /\ cursor' = 0 /\ updating' = "no"
  /\ log' = [log EXCEPT !.cleared = DOMAIN notes \ Live]
  /\ UNCHANGED <<notes, generation, session, loading, loadingMore>>
\* The request is lost, or its answer is.
Fail(q) ==
  /\ sent' = sent \ {q}
  /\ loading' = IF q.kind = "first" /\ q.session = session THEN FALSE ELSE loading
  /\ loadingMore' = IF q.kind = "more" /\ Current(q) THEN FALSE ELSE loadingMore
  /\ updating' = IF q.kind \in {"markAll", "clear"} THEN "no" ELSE updating
  /\ UNCHANGED <<notes, rows, cursor, generation, session, log>>

PageInit ==
  /\ notes = [n \in 1..FirstNotes |-> "unread"] /\ rows = <<>> /\ cursor = 0
  /\ generation = 0 /\ session = 0 /\ loading = TRUE /\ loadingMore = FALSE /\ updating = "no" /\ sent = {}
  /\ log = [shown |-> {}, marked |-> {}, cleared |-> {}, asked |-> 0, renewed |-> FALSE]

PageNext ==
  \/ Arrive \/ SignIn \/ SignOut \/ LoadMore \/ MarkAllRead \/ ClearAll
  \/ \E q \in sent : \/ ReadPage(q) \/ MarkRead(q) \/ ClearNotifications(q)
                     \/ ReceiveFirst(q) \/ ReceiveMore(q) \/ ReceiveMark(q) \/ ReceiveClear(q) \/ Fail(q)

PageSpec == PageInit /\ [][PageNext]_pageVars

(***************************************************************************)
(* Properties                                                              *)
(***************************************************************************)
PageTypeOK ==
  /\ notes \in Seq({"unread", "read", "cleared"}) /\ ToSet(rows) \subseteq DOMAIN notes /\ cursor \in {0} \cup DOMAIN notes
  /\ {loading, loadingMore} \subseteq BOOLEAN /\ updating \in {"no", "mark", "clear"}

\* Between the newest row and the cursor the page has every notification that the
\* server has, in order, whatever arrived, was marked or was cleared meanwhile.
NoGaps ==
  /\ \A m, n \in DOMAIN rows : m < n => rows[m] > rows[n]
  /\ rows # <<>> => \A n \in Live : n <= rows[1] /\ n > cursor => n \in ToSet(rows)
\* Rows that a completed clear took off the page are not restored by the answers of next
\* pages, of marks, or of first pages asked for before or after the clear. The comment at
\* Notifications.jsx:342-343, "Even a response that arrives after the mutation completes
\* must not restore deleted rows", says more than the code does: a first page that is
\* asked for while the clear is in flight, read by the server before it, and received
\* after the clear's answer does restore the cleared rows, for nothing tells its answer
\* from a current one. That answer is exempt here.
ClearedStaysAway ==
  \A n \in ToSet(rows') \ ToSet(rows) : n \in log.cleared =>
    \E q \in sent \ sent' : q.kind = "first" /\ q.clearing
\* "Reading never changes state": what is read on the server was on the page, or the
\* recipient marked everything.
ReadMeansShown == \A n \in DOMAIN notes : notes[n] = "read" => n \in log.shown \cup log.marked
\* The page waits for a next page only while one is coming; a session that is renewed
\* meanwhile leaves it waiting.
WaitsForSomething ==
  loadingMore => log.renewed \/ \E q \in sent : q.kind = "more" /\ Current(q)
PageKeepsUp == NoGaps /\ ReadMeansShown /\ WaitsForSomething
=============================================================================
