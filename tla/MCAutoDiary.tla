----------------------------- MODULE MCAutoDiary ----------------------------
(* An instance of AutoDiary for TLC. Three different tracks make a play of    *)
(* the album; its five scrobbles make sessions of which one may be split, or  *)
(* joined with another, by a scrobble that arrives late.                      *)
EXTENDS AutoDiary

CONSTANTS w, o, e1, e2, e3, e4, e5

TheAt == e1 :> 1 @@ e2 :> 3 @@ e3 :> 4 @@ e4 :> 5 @@ e5 :> 6
TheTracks == e1 :> "c" @@ e2 :> "a" @@ e3 :> "a" @@ e4 :> "b" @@ e5 :> "c"
TheMoments == <<6, 10>>
TheNear == [e \in Event |-> {"near"}]

(* A play that is published at once against manual entries; one that starts   *)
(* from afar while the catalog changes; one from before the diary was         *)
(* switched on; and one whose owner switches the diary on and off.            *)
Scene(captured, enabledAt, n, ks) ==
  [captured |-> captured, enabledAt |-> enabledAt, requests |-> n, kinds |-> ks]
TheScenes ==
  { Scene({e3, e4, e5}, 1, 3, {"entry", "resolve"}),
    Scene({e1, e4, e5}, 1, 2, {"entry", "catalog", "resolve"}),
    Scene({e3, e4}, 6, 2, {"entry", "switch", "resolve"}),
    Scene({e3, e4, e5}, 0, 3, {"switch", "entry"}) }

\* What detection makes of every set of scrobbles; TLC tabulates it here.
ASSUME DetectionIsTyped ==
  /\ DetectSessions \in [SUBSET Event -> SUBSET SUBSET Event]
  /\ PlaysOf \in [SUBSET Event -> Seq([credited : Seq(Event), needed : Nat])]
=============================================================================
