---------------------------- MODULE QueueProfiles ---------------------------
(* The profiles that have a listen-next queue, and what bounds it, apart from *)
(* the documents and requests of ListenQueue.                                 *)
EXTENDS QueueRules, FiniteSets

CONSTANTS Caller,          \* queue requests under way (the Clients are creating listens)
          Album,           \* catalog albums
          Missing,         \* those whose catalog record is gone
          StartProfiles,   \* profiles a behaviour may begin with
          MaxQueue,        \* MAX_QUEUE
          WriteAttempts,   \* WRITE_ATTEMPTS
          MaxRequests      \* bound on requests and listens

\* A profile as the application leaves it: only an old one has a legacy album.
Profile == [queue: Seq(Album), rev: Nat, legacy: SUBSET Album]
SoundProfile(p) ==
  /\ p \in Profile /\ Injective(p.queue) /\ Len(p.queue) <= MaxQueue
  /\ \A a, b \in p.legacy : a = b
  /\ p.rev = 0 => p.queue = <<>>

ASSUME QueueAssumption ==
  /\ Missing \subseteq Album
  /\ MaxQueue \in Nat \ {0} /\ WriteAttempts \in Nat \ {0} /\ MaxRequests \in Nat
  /\ \A p \in StartProfiles : SoundProfile(p)
=============================================================================
