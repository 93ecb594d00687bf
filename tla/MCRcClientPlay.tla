---------------------------- MODULE MCRcClientPlay ----------------------------
\* Games for RcClientPlay: achievements of both categories, two subsets, leaderboards that may share a tracker.
EXTENDS RcClientPlay

AchievementOf(subset, category, mem, measured) ==
  [subset |-> subset, category |-> category, mem |-> mem, measured |-> measured, parses |-> TRUE]
LeaderboardOf(name, subset, hits, hidden) ==
  [name |-> name, subset |-> subset, key |-> "score", hits |-> hits, hidden |-> hidden, mem |-> name]

Game(achievements, leaderboards, modes, requests, most) ==
  [ach |-> achievements, lb |-> leaderboards, modes |-> modes, requests |-> requests, most |-> most]

MCDefinitions ==
  {Game([a1 |-> AchievementOf(1, "core", "m1", TRUE)], <<>>, {"plain"}, 1, 1),
   Game([b1 |-> AchievementOf(1, "core", "m1", FALSE), b2 |-> AchievementOf(2, "unofficial", "m1", FALSE)], <<>>, {"plain"}, 1, 1),
   Game(<<>>, <<LeaderboardOf("c1", 1, FALSE, FALSE), LeaderboardOf("c2", 2, FALSE, FALSE)>>, {"spectating"}, 1, 1),
   Game(<<>>, <<LeaderboardOf("g1", 1, FALSE, FALSE)>>, {"plain"}, 1, 1),
   Game(<<>>, <<LeaderboardOf("d1", 1, TRUE, TRUE), LeaderboardOf("d2", 1, TRUE, FALSE)>>, {"spectating"}, 1, 2),
   Game([e1 |-> AchievementOf(1, "core", "m1", FALSE)], <<>>, {"encore"}, 2, 1),
   Game([f1 |-> [AchievementOf(1, "core", "m1", FALSE) EXCEPT !.parses = FALSE]], <<>>, {"spectating"}, 1, 1)}
=============================================================================
