---------------------------- MODULE MCTessRoutine ----------------------------
(***************************************************************************)
(* Vertices at which four faces meet, numbered in every order around it,   *)
(* and one with six, numbered so that its aliases form the longest chain;  *)
(* a tube (a face with a seam) and its cap; two faces placed twice;        *)
(* a shape without faces.  Each without a wireframe and with two kinds of  *)
(* it.  Of one fan, an edge has no polygon on one of its faces, one cannot *)
(* be sampled, and one has a tangent at an end only.                       *)
(***************************************************************************)
EXTENDS TessRoutine

\* An edge as it usually is, with tangents all along and a curve that can be sampled.
Edge(edge, poly) == [edge |-> edge, poly |-> poly, tangents |-> DOMAIN poly, sampled |-> TRUE]

\* Face r of a fan of n around place 0, between the spokes r and r + 1: one
\* triangle, its own edge opposite the vertex, and a node no triangle uses.
Sector(n, r) ==
  LET s == (r % n) + 1 IN
    [tri |-> r, places |-> <<0, r, s, 20 + r>>, triangles |-> << <<1, 2, 3>> >>,
     edges |-> << Edge(r, <<1, 2>>),
                  Edge(s, <<1, 3>>),
                  Edge(10 + r, <<2, 3>>) >>]

Fan(order) == [f \in DOMAIN order |-> Sector(Len(order), order[f])]

\* A fan looks the same from each of its faces: the first is sector 1.
Orders(n) ==
  {order \in [1..n -> 1..n] : order[1] = 1 /\ \A f, g \in 1..n : f # g => order[f] # order[g]}

\* The seam (edge 1) from 0 to 1; the lower circle (edge 2) passes 2, the upper 3.
Tube ==
  [tri |-> 1, places |-> <<0, 1, 0, 1, 2, 3>>,
   triangles |-> << <<1, 5, 2>>, <<5, 6, 2>>, <<5, 3, 6>>, <<3, 4, 6>> >>,
   edges |-> << Edge(1, <<1, 2>>), Edge(2, <<1, 5, 3>>),
                Edge(1, <<3, 4>>), Edge(3, <<2, 6, 4>>) >>]

Cap ==
  [tri |-> 2, places |-> <<4, 2, 0>>,
   triangles |-> << <<1, 2, 3>>, <<1, 3, 2>> >>,
   edges |-> << Edge(2, <<3, 2, 3>>) >>]

\* A fan of which spoke 2 cannot be sampled, spoke 3 has a tangent at its outer end only,
\* and spoke 4 has no polygon on sector 4.
FlawedEdge(r, e) ==
  CASE e.edge = 2 -> [e EXCEPT !.sampled = FALSE]
    [] e.edge = 3 -> [e EXCEPT !.tangents = {2}]
    [] e.edge = 4 /\ r = 4 -> [e EXCEPT !.poly = << >>]
    [] OTHER -> e
Flawed ==
  [r \in 1..4 |-> [Sector(4, r) EXCEPT !.edges = [i \in 1..3 |-> FlawedEdge(r, Sector(4, r).edges[i])]]]

\* A face placed once more.
Moved(face) ==
  [face EXCEPT !.places = [n \in DOMAIN face.places |-> face.places[n] + 30],
               !.edges = [i \in DOMAIN face.edges |->
                            Edge(face.edges[i].edge + 30, face.edges[i].poly)]]

\* Two faces that meet on an edge, placed twice.
Twice == <<Sector(4, 1), Sector(4, 2), Moved(Sector(4, 1)), Moved(Sector(4, 2))>>

MCShapes ==
  {Fan(order) : order \in Orders(4)}
    \cup {Fan(<<1, 3, 5, 2, 4, 6>>), <<Tube, Cap>>, <<Cap, Tube>>, Twice, Flawed, << >>}

MCWireframes ==
  {[type |-> "none", sampling |-> "underlying", normals |-> FALSE],
   [type |-> "cubic", sampling |-> "underlying", normals |-> TRUE],
   [type |-> "linear", sampling |-> "resampled", normals |-> TRUE]}

\* The hypothesis of the theorems on flags and tangents, whatever faces are meshed.
ASSUME MCEdgesKeepOut ==
  \A s \in Shapes : \A f, g \in DOMAIN s : \A n \in FaceNodes(s[f]) :
    (\E d \in FaceEdges(s[g]) : s[f].places[n] \in Range(Along(s[g], d)))
      => \E e \in FaceEdges(s[f]) : n \in Range(e.poly)
=============================================================================
