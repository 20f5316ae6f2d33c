------------------------------- MODULE World -------------------------------
(***************************************************************************)
(* The world (src/dssd/sharding/world.py): agents move at constant speed,  *)
(* bounce off the edges, and belong to the shard their position falls in.  *)
(* Positions and speeds are whole numbers of some small unit, of which a   *)
(* shard is CellWidth wide and CellHeight high; the code's floats round,   *)
(* which is not modelled.                                                  *)
(***************************************************************************)
EXTENDS Integers

CONSTANTS Cols, Rows, CellWidth, CellHeight,
          MaxSpeed     \* an agent's speed along an axis, per tick, is at most this

Width == Cols * CellWidth
Height == Rows * CellHeight

ASSUME SizesAssumption ==
    /\ Cols \in Nat \ {0} /\ Rows \in Nat \ {0}
    /\ CellWidth \in Nat \ {0} /\ CellHeight \in Nat \ {0}

\* The code takes any speed; in all its worlds an agent needs several ticks to
\* cross a shard.
ASSUME SpeedAssumption ==
    MaxSpeed \in Nat /\ MaxSpeed <= CellWidth /\ MaxSpeed <= CellHeight

Shard == (0..Rows - 1) \X (0..Cols - 1)

Velocity == -MaxSpeed..MaxSpeed
AgentState == [x : 0..Width, y : 0..Height, vx : Velocity, vy : Velocity]

\* mutant of NewPosition: the far edge only turns the agent round
Overrun(to, limit) == IF to < 0 THEN -to ELSE to

\* _bounce: where a step along one axis ends, and the velocity after it.
NewPosition(to, limit) ==
    IF to < 0 THEN -to ELSE IF to > limit THEN 2 * limit - to ELSE to
NewVelocity(to, v, limit) == IF to < 0 \/ to > limit THEN -v ELSE v

\* One tick of an agent.
Step(a) ==
    [x |-> NewPosition(a.x + a.vx, Width), vx |-> NewVelocity(a.x + a.vx, a.vx, Width),
     y |-> NewPosition(a.y + a.vy, Height), vy |-> NewVelocity(a.y + a.vy, a.vy, Height)]

\* shard_id_for, along one axis: positions outside belong to the edge, and so
\* does the edge itself.
CellOf(pos, cell, n) ==
    LET k == IF pos \div cell < 0 THEN 0 ELSE pos \div cell
    IN  IF k > n - 1 THEN n - 1 ELSE k

Home(a) == <<CellOf(a.y, CellHeight, Rows), CellOf(a.x, CellWidth, Cols)>>
=============================================================================
