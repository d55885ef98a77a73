---------------------------- MODULE MCTaskDrive ----------------------------
(* TaskDrive on small instances: two plain tasks, whose nodes have the same *)
(* name, a team of two and a review.                                        *)
EXTENDS TaskDrive

CONSTANTS u1, u2, u3, u4, u5, task1, task2, crew, review, main, part1, part2, reviewer

OfAll == (u1 :> task1) @@ (u2 :> task2) @@ (u3 :> crew) @@ (u4 :> crew) @@ (u5 :> review)
Names == (u1 :> main) @@ (u2 :> main) @@ (u3 :> part1) @@ (u4 :> part2) @@ (u5 :> reviewer)
=============================================================================
