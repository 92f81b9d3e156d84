----------------------------- MODULE QueueRules -----------------------------
(***************************************************************************)
(* What the listen-next queue of a profile is and how it changes, shared   *)
(* by Library (a listen takes its album out) and ListenQueue (the rest).   *)
(* A profile p has a queue of albums, its revision, and the album that an  *)
(* old profile was "listening next" (a set of at most one).                *)
(***************************************************************************)
EXTENDS Orders

\* Until the first write of the queue, the legacy album is the queue.
EffectiveQueue(p) ==
  IF p.rev > 0 THEN p.queue
  ELSE IF p.legacy = {} THEN <<>> ELSE <<CHOOSE a \in p.legacy : TRUE>>

\* removeListenedAlbum: the album leaves the queue, or the legacy field that
\* stands for it until the first queue write.
WithoutListened(p, a) ==
  IF p.rev > 0 /\ a \in Elements(p.queue)
  THEN [p EXCEPT !.queue = Without(p.queue, a), !.rev = @ + 1]
  ELSE IF p.rev = 0 /\ a \in p.legacy
  THEN [p EXCEPT !.queue = <<>>, !.rev = 1, !.legacy = {}]
  ELSE p
=============================================================================
