--------------------------- MODULE MCRobotOnGraph ---------------------------
(***************************************************************************)
(* Small graphs: a junction with one-way and two-way ends, junctions near, *)
(* at the limit and too far away, a choice of two, and a ring.             *)
(***************************************************************************)
EXTENDS RobotOnGraph

Both(pairs) == pairs \union {<<p[2], p[1]>> : p \in pairs}

Stars ==
  {{<<1, 0>>, <<2, 1>>, <<1, 3>>}, Both({<<0, 1>>, <<1, 2>>, <<1, 3>>})}

Tails ==
  {Both({<<0, 1>>, <<2, 3>>}) \union {<<1, 2>>, <<2, 4>>},
   {<<0, 1>>, <<1, 2>>, <<2, 3>>, <<3, 4>>, <<5, 3>>}}

\* Two ways out of 0, to a near and a far junction; and one-way round.
Rings ==
  {{<<0, 1>>, <<0, 2>>, <<1, 4>>, <<1, 5>>, <<2, 3>>, <<3, 4>>, <<3, 5>>},
   {<<0, 1>>, <<0, 2>>, <<1, 3>>, <<3, 2>>, <<2, 1>>, <<4, 2>>}}

MCGraphs == Stars \union Tails \union Rings

MCSpeedLimit == [l \in Waypoints \X Waypoints |-> (l[1] + 2 * l[2]) % 3]
=============================================================================
