--------------------------- MODULE DetectionRules ---------------------------
(***************************************************************************)
(* lib/listening/detection.js for one album: the sessions that a set of    *)
(* scrobbles falls into, and the plays of the album within each session.   *)
(* Every scrobble here is matched to a countable position (a track) of the *)
(* reviewed baseline; times are abstract.                                  *)
(***************************************************************************)
EXTENDS Naturals, Sequences, FiniteSets, SequencesExt

CONSTANTS Event,          \* scrobbles
          At,             \* [Event -> Nat], when each was played; no two at once
          TrackOf,        \* [Event -> track]
          Required,       \* how many distinct tracks qualify a play
          GapLimit,       \* a longer silence ends a session (gapMs)
          SessionLimit    \* and so does a session of this length (maxSessionMs)

ASSUME DetectionAssumption ==
  /\ IsFiniteSet(Event) /\ At \in [Event -> Nat] /\ \A e, f \in Event : At[e] = At[f] => e = f
  /\ Required \in Nat \ {0} /\ GapLimit \in Nat /\ SessionLimit \in Nat \ {0}

Before(E, e) == { f \in E : At[f] < At[e] }
InTime(E) == [n \in 1 .. Cardinality(E) |-> CHOOSE e \in E : Cardinality(Before(E, e)) = n - 1]

(***************************************************************************)
(* A play: the events it is credited with, in order, and how many of them  *)
(* it took to qualify it (0 while it has not).                             *)
(***************************************************************************)
Positions(play) == { TrackOf[play.credited[i]] : i \in DOMAIN play.credited }
Qualified(play) == play.needed > 0
FirstOf(play)   == play.credited[1]
QualifierOf(play) == play.credited[play.needed]
NewPlay == [credited |-> <<>>, needed |-> 0]

Credited(play, e) ==
  LET more == Append(play.credited, e)
  IN  [credited |-> more,
       needed |-> IF ~Qualified(play) /\ Len(more) >= Required THEN Len(more) ELSE play.needed]

\* creditPosition: the earliest play that lacks the track takes it; a new play
\* opens only when the newest one has qualified.
CreditPosition(plays, e) ==
  LET lacking == { i \in DOMAIN plays : TrackOf[e] \notin Positions(plays[i]) }
      earliest == CHOOSE i \in lacking : \A j \in lacking : i <= j
  IN  IF lacking # {} THEN [plays EXCEPT ![earliest] = Credited(@, e)]
      ELSE IF plays # <<>> /\ ~Qualified(Last(plays)) THEN plays
      ELSE Append(plays, Credited(NewPlay, e))

\* The plays of a session that consists of the events E, which come one by one.
PlaysOf ==
  [E \in SUBSET Event |->
    LET plays[n \in 0 .. Cardinality(E)] ==
          IF n = 0 THEN <<>> ELSE CreditPosition(plays[n - 1], InTime(E)[n])
    IN  plays[Cardinality(E)]]
QualifiedPlays(E) == { i \in DOMAIN PlaysOf[E] : Qualified(PlaysOf[E][i]) }

\* detectSessions: an event too late for the newest session opens the next one.
Extended(sessions, e) ==
  LET newest == Last(sessions)
      start == At[newest[1]]
  IN  IF sessions = <<>> \/ At[e] - At[Last(newest)] > GapLimit \/ At[e] - start >= SessionLimit
      THEN Append(sessions, <<e>>)
      ELSE [sessions EXCEPT ![Len(sessions)] = Append(@, e)]
DetectSessions ==
  [E \in SUBSET Event |->
    LET sessions[n \in 0 .. Cardinality(E)] ==
          IF n = 0 THEN <<>> ELSE Extended(sessions[n - 1], InTime(E)[n])
    IN  { ToSet(f) : f \in ToSet(sessions[Cardinality(E)]) }]
=============================================================================
