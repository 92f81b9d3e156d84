----------------------------- MODULE MCLibrary -----------------------------
(* Instances of Library for TLC. A scene is the album a1, which everything is *)
(* about, or "orders", which is about two albums.                             *)
EXTENDS Library, TLC

CONSTANTS d, b1, a1, a2, l1, l2, k1, c1, c2

VARIABLE scene
sceneVars == <<libVars, scene>>

MCSymmetry == Permutations(Client) \cup Permutations(Listen)

(* Memberships, saves and pins against the deletion of their parents, and     *)
(* creations that are retried and raced under a key, with two inputs.         *)
RequestsAbout(a) ==
  [op: {"createListen"}, key: Key, album: {a}, date: Date, boards: {{}, {b1}}]
  \cup [op: {"attach", "detach"}, board: Board, listen: Listen]
  \cup [op: {"deleteListen"}, listen: Listen] \cup [op: {"deleteBoard", "pinBoard"}, board: Board]
  \cup [op: {"saveAlbum", "removeAlbum"}, board: Board, album: {a}]
  \cup [op: {"updateBoard"}, board: {d}, manual: {TRUE}]
  \cup [op: {"updateListen"}, listen: Listen, date: Date]
(* A manual board past its limit, with saves, removals and reorders.          *)
OrderRequests ==
  [op: {"saveAlbum", "removeAlbum"}, board: {d}, album: Album] \cup [op: {"updateBoard"}, board: {d}, manual: BOOLEAN]
LibraryRequests == OrderRequests \cup RequestsAbout(a1)

RequestsOf(s) == IF s = "orders" THEN OrderRequests ELSE RequestsAbout(s)

LibraryScenes ==
  /\ LibraryInit /\ scene \in {a1, "orders"}
  /\ db[ProfileDoc].legacy \subseteq {scene}
SceneNext ==
  /\ LibraryNext /\ UNCHANGED scene
  /\ scene = "orders" => db'[BoardDoc(b1)] = db[BoardDoc(b1)]
  /\ scene # "orders" => sent' < MaxRequests
  /\ \A c \in DOMAIN tx' : tx'[c].req.op = "reorderBoard" \/ tx'[c].req \in RequestsOf(scene)
ScenesSpec == LibraryScenes /\ [][SceneNext]_sceneVars
=============================================================================
