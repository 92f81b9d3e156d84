---------------------------- MODULE AtomicQueue ----------------------------
(***************************************************************************)
(* What the listen-next queue promises its owner: every request takes      *)
(* effect at one instant between being sent and being answered, or is      *)
(* refused and changes nothing, and a listen takes its album out at one    *)
(* instant too.                                                            *)
(***************************************************************************)
EXTENDS QueueRules

CONSTANTS Caller, Album, MaxQueue, Request

VARIABLES queue,   \* the albums the owner sees
          call     \* each caller's request and what became of it

NoCall == [req |-> [op |-> "none"], outcome |-> "open"]

Member(a) == a \in Elements(queue)
Bottom(q, a) == q \o <<a>>
Top(q, a)    == <<a>> \o q
Rest(a) == IF Member(a) THEN Without(queue, a) ELSE queue

Added(r) ==
  /\ Member(r.album) \/ Len(queue) < MaxQueue
  /\ queue' = IF r.position = "top" THEN Top(Rest(r.album), r.album)
              ELSE IF Member(r.album) /\ r.position = "none" THEN queue
              ELSE Bottom(Rest(r.album), r.album)
Removed(r) == queue' = Rest(r.album)
\* The order that the caller made replaces the very order it was looking at.
Reordered(r) == queue = r.seen /\ queue' = r.order

Effect(r) ==
  CASE r.op = "add" -> Added(r)
    [] r.op = "remove" -> Removed(r)
    [] r.op = "reorder" -> Reordered(r)

Send(c) ==
  /\ call[c] = NoCall
  /\ call'[c].req \in Request
  /\ call' = [call EXCEPT ![c].req = call'[c].req]
  /\ UNCHANGED queue

Serve(c) ==
  /\ call[c] # NoCall /\ call[c].outcome = "open"
  /\ Effect(call[c].req)
  /\ call' = [call EXCEPT ![c].outcome = "ok"]

RefuseFull(c) ==
  /\ call[c] # NoCall /\ call[c].outcome = "open"
  /\ call[c].req.op = "add" /\ ~Member(call[c].req.album) /\ Len(queue) = MaxQueue
  /\ call' = [call EXCEPT ![c].outcome = "full"]
  /\ UNCHANGED queue

RefuseChanged(c) ==
  /\ call[c] # NoCall /\ call[c].outcome = "open"
  /\ call' = [call EXCEPT ![c].outcome = "changed"]
  /\ UNCHANGED queue

Answer(c) ==
  /\ call[c].outcome # "open"
  /\ call' = [call EXCEPT ![c] = NoCall]
  /\ UNCHANGED queue

ListenTo(a) == queue' = Rest(a) /\ UNCHANGED call

AtomicNext ==
  \/ \E c \in Caller : Send(c) \/ Serve(c) \/ RefuseFull(c) \/ RefuseChanged(c) \/ Answer(c)
  \/ \E a \in Album : ListenTo(a)

AtomicInit == queue \in Seq(Album) /\ Len(queue) <= MaxQueue /\ Injective(queue) /\ call = [c \in Caller |-> NoCall]
AtomicSpec == AtomicInit /\ [][AtomicNext]_<<queue, call>>
=============================================================================
