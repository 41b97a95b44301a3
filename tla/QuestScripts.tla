----------------------------- MODULE QuestScripts ------------------------------
(* Tables of the scripts of quests. *)
EXTENDS ScriptTables

quest_1021 == {
  T(0, Start, {}, <<Say>>, 1),
  T(0, Finish, {}, <<Say>>, 5),
  T(0, Finish, {}, <<Say, Dispose>>, 0),
  T(1, Yes, {}, <<NextPrev>>, 2),
  T(2, Yes, {}, <<Accept>>, 3),
  T(2, No, {}, <<Say>>, 1),
  T(3, Yes, {Has(2010007, 1)}, <<Say>>, 4),
  T(3, Yes, {Lacks(2010007, 1)}, <<Give(2010007, 1), Say>>, 4),
  T(3, No, {}, <<NextPrev>>, 2),
  T(4, Yes, {}, <<StartQuest, Dispose>>, 0),
  T(5, Yes, {}, <<Also("gainExp"), Give(2010000, 3), Give(2010009, 3), CompleteQuest, Dispose>>, 0) }

quest_2300 == {
  T(0, Start, {}, <<Ok, Dispose>>, 0),
  T(0, Start, {}, <<Accept>>, 1),
  T(0, Finish, {}, <<Say>>, 5),
  T(1, Yes, {}, <<Say>>, 2),
  T(1, No, {}, <<Ok, Dispose>>, 0),
  T(2, Yes, {}, <<Say>>, 3),
  T(3, Yes, {Has(4032375, 1), Room(0, 1)}, <<StartQuest, YesNo>>, 4),
  T(3, Yes, {Full(0, 1), Has(4032375, 1)}, <<Give(4032375, 1), StartQuest, YesNo>>, 4),
  T(3, Yes, {Lacks(4032375, 1)}, <<Give(4032375, 1), StartQuest, YesNo>>, 4),
  T(4, Yes, {}, <<Also("warp"), Dispose>>, 0),
  T(4, No, {}, <<Say>>, 3),
  T(5, Yes, {}, <<NextPrev>>, 6),
  T(6, Yes, {}, <<NextPrev>>, 7),
  T(6, No, {}, <<Dispose>>, 0),
  T(7, Yes, {}, <<CompleteQuest, Take(4032375, 1), Also("quest"), Dispose>>, 0),
  T(7, No, {}, <<Dispose>>, 0) }

quest_2301 == {
  T(0, Start, {}, <<Ok, Dispose>>, 0),
  T(0, Start, {}, <<Accept>>, 1),
  T(0, Finish, {}, <<Say>>, 5),
  T(1, Yes, {}, <<Say>>, 2),
  T(1, No, {}, <<Ok, Dispose>>, 0),
  T(2, Yes, {}, <<Say>>, 3),
  T(3, Yes, {}, <<Give(4032375, 1), StartQuest, YesNo>>, 4),
  T(4, Yes, {}, <<Also("warp"), Dispose>>, 0),
  T(4, No, {}, <<Say>>, 3),
  T(5, Yes, {}, <<NextPrev>>, 6),
  T(6, Yes, {}, <<NextPrev>>, 7),
  T(6, No, {}, <<Dispose>>, 0),
  T(7, Yes, {}, <<CompleteQuest, Take(4032375, 1), Also("quest"), Dispose>>, 0),
  T(7, No, {}, <<Dispose>>, 0) }

quest_2302 == {
  T(0, Start, {}, <<Ok, Dispose>>, 0),
  T(0, Start, {}, <<Accept>>, 1),
  T(0, Finish, {}, <<Say>>, 5),
  T(1, Yes, {}, <<Say>>, 2),
  T(1, No, {}, <<Ok, Dispose>>, 0),
  T(2, Yes, {}, <<Say>>, 3),
  T(3, Yes, {}, <<Give(4032375, 1), StartQuest, YesNo>>, 4),
  T(4, Yes, {}, <<Also("warp"), Dispose>>, 0),
  T(4, No, {}, <<Say>>, 3),
  T(5, Yes, {}, <<NextPrev>>, 6),
  T(6, Yes, {}, <<NextPrev>>, 7),
  T(6, No, {}, <<Dispose>>, 0),
  T(7, Yes, {}, <<CompleteQuest, Take(4032375, 1), Also("quest"), Dispose>>, 0),
  T(7, No, {}, <<Dispose>>, 0) }

quest_2303 == {
  T(0, Start, {}, <<Ok, Dispose>>, 0),
  T(0, Start, {}, <<Accept>>, 1),
  T(0, Finish, {}, <<Say>>, 5),
  T(1, Yes, {}, <<Say>>, 2),
  T(1, No, {}, <<Ok, Dispose>>, 0),
  T(2, Yes, {}, <<Say>>, 3),
  T(3, Yes, {}, <<Give(4032375, 1), StartQuest, YesNo>>, 4),
  T(4, Yes, {}, <<Also("warp"), Dispose>>, 0),
  T(4, No, {}, <<Say>>, 3),
  T(5, Yes, {}, <<NextPrev>>, 6),
  T(6, Yes, {}, <<NextPrev>>, 7),
  T(6, No, {}, <<Dispose>>, 0),
  T(7, Yes, {}, <<CompleteQuest, Take(4032375, 1), Also("quest"), Dispose>>, 0),
  T(7, No, {}, <<Dispose>>, 0) }

quest_2304 == {
  T(0, Start, {}, <<Ok, Dispose>>, 0),
  T(0, Start, {}, <<Accept>>, 1),
  T(0, Finish, {}, <<Say>>, 5),
  T(1, Yes, {}, <<Say>>, 2),
  T(1, No, {}, <<Ok, Dispose>>, 0),
  T(2, Yes, {}, <<Say>>, 3),
  T(3, Yes, {}, <<Give(4032375, 1), StartQuest, YesNo>>, 4),
  T(4, Yes, {}, <<Also("warp"), Dispose>>, 0),
  T(4, No, {}, <<Say>>, 3),
  T(5, Yes, {}, <<NextPrev>>, 6),
  T(6, Yes, {}, <<NextPrev>>, 7),
  T(6, No, {}, <<Dispose>>, 0),
  T(7, Yes, {}, <<CompleteQuest, Take(4032375, 1), Also("quest"), Dispose>>, 0),
  T(7, No, {}, <<Dispose>>, 0) }

quest_2314 == {
  T(0, Start, {}, <<YesNo>>, 1),
  T(0, Finish, {}, <<Ok>>, 3),
  T(1, Yes, {}, <<Say>>, 2),
  T(1, No, {}, <<>>, 0),
  T(2, Yes, {}, <<Also("gainExp"), Ok, CompleteQuest, Dispose>>, 0),
  T(3, Yes, {}, <<Also("gainExp"), Ok, CompleteQuest, Dispose>>, 0) }

quest_2318 == {
  T(0, Start, {}, <<Accept>>, 1),
  T(0, Finish, {}, <<Ok>>, 2),
  T(1, Yes, {}, <<StartQuest, Ok, Dispose>>, 0),
  T(1, No, {}, <<Ok, Dispose>>, 0),
  T(2, Yes, {}, <<Also("gainExp"), Take(4000499, 50), Say, CompleteQuest>>, 3),
  T(3, Yes, {}, <<Prev, Give(2430014, 1), Dispose>>, 0) }

quest_2322 == {
  T(0, Start, {}, <<YesNo>>, 1),
  T(0, Finish, {}, <<Ok>>, 3),
  T(1, Yes, {}, <<Say>>, 2),
  T(1, No, {}, <<>>, 0),
  T(2, Yes, {}, <<Also("gainExp"), Ok, CompleteQuest, Dispose>>, 0),
  T(3, Yes, {}, <<Also("gainExp"), Ok, CompleteQuest, Dispose>>, 0) }

quest_2324 == {
  T(0, Start, {}, <<Say>>, 1),
  T(0, Finish, {}, <<Ok>>, 4),
  T(1, Yes, {}, <<Accept>>, 2),
  T(2, Yes, {}, <<Ok>>, 3),
  T(2, No, {}, <<Ok, Dispose>>, 0),
  T(3, Yes, {}, <<Also("gainExp"), Ok, CompleteQuest, Dispose>>, 0),
  T(4, Yes, {}, <<Also("gainExp"), Ok, CompleteQuest, Dispose>>, 0) }

quest_20013 == {
  T(0, Start, {}, <<Say>>, 1),
  T(0, Finish, {}, <<Say>>, 6),
  T(1, Yes, {}, <<NextPrev>>, 2),
  T(2, Yes, {}, <<NextPrev>>, 3),
  T(2, No, {}, <<Say>>, 1),
  T(3, Yes, {}, <<NextPrev>>, 4),
  T(3, No, {}, <<Say, SafeDispose>>, 0),
  T(4, Yes, {}, <<Accept>>, 5),
  T(4, No, {}, <<NextPrev>>, 3),
  T(5, Yes, {}, <<StartQuest, Dispose>>, 0),
  T(5, No, {}, <<NextPrev>>, 4),
  T(6, Yes, {}, <<NextPrev>>, 7),
  T(7, Yes, {}, <<Take(4032267, 1), Take(4032268, 1), Give(3010060, 1), CompleteQuest, Also("quest"),
      Also("gainExp"), Dispose>>, 0),
  T(7, No, {}, <<Say>>, 6) }

quest_20201 == {
  T(0, Start, {}, <<>>, 0),
  T(0, Finish, {}, <<StartQuest, Dispose>>, 0),
  T(0, Finish, {Has(4032096, 30)}, <<YesNo>>, 1),
  T(0, Finish, {Lacks(4032096, 30)}, <<Dispose>>, 0),
  T(1, Yes, {Room(1, 1)}, <<CompleteQuest, Say>>, 2),
  T(1, Yes, {Room(1, 1)}, <<CompleteQuest, Also("changeJob"), Take(4032096, 30), Give(1142067, 1), Say>>, 2),
  T(1, Yes, {Full(1, 1)}, <<Ok, Dispose>>, 0),
  T(1, No, {}, <<Say, Dispose>>, 0),
  T(2, Yes, {}, <<Prev, Dispose>>, 0) }

quest_20202 == {
  T(0, Start, {}, <<>>, 0),
  T(0, Finish, {}, <<StartQuest, Dispose>>, 0),
  T(0, Finish, {Has(4032097, 30)}, <<YesNo>>, 1),
  T(0, Finish, {Lacks(4032097, 30)}, <<Dispose>>, 0),
  T(1, Yes, {Room(1, 1)}, <<CompleteQuest, Say>>, 2),
  T(1, Yes, {Room(1, 1)}, <<CompleteQuest, Also("changeJob"), Take(4032097, 30), Give(1142067, 1), Say>>, 2),
  T(1, Yes, {Full(1, 1)}, <<Ok, Dispose>>, 0),
  T(1, No, {}, <<Say, Dispose>>, 0),
  T(2, Yes, {}, <<Prev, Dispose>>, 0) }

quest_20203 == {
  T(0, Start, {}, <<>>, 0),
  T(0, Finish, {}, <<StartQuest, Dispose>>, 0),
  T(0, Finish, {Has(4032098, 30)}, <<YesNo>>, 1),
  T(0, Finish, {Lacks(4032098, 30)}, <<Dispose>>, 0),
  T(1, Yes, {Room(1, 1)}, <<CompleteQuest, Say>>, 2),
  T(1, Yes, {Room(1, 1)}, <<CompleteQuest, Also("changeJob"), Take(4032098, 30), Give(1142067, 1), Say>>, 2),
  T(1, Yes, {Full(1, 1)}, <<Ok, Dispose>>, 0),
  T(1, No, {}, <<Say, Dispose>>, 0),
  T(2, Yes, {}, <<Prev, Dispose>>, 0) }

quest_20204 == {
  T(0, Start, {}, <<>>, 0),
  T(0, Finish, {}, <<StartQuest, Dispose>>, 0),
  T(0, Finish, {Has(4032099, 30)}, <<YesNo>>, 1),
  T(0, Finish, {Lacks(4032099, 30)}, <<Dispose>>, 0),
  T(1, Yes, {Room(1, 1)}, <<CompleteQuest, Say>>, 2),
  T(1, Yes, {Room(1, 1)}, <<CompleteQuest, Also("changeJob"), Take(4032099, 30), Give(1142067, 1), Say>>, 2),
  T(1, Yes, {Full(1, 1)}, <<Ok, Dispose>>, 0),
  T(1, No, {}, <<Say, Dispose>>, 0),
  T(2, Yes, {}, <<Prev, Dispose>>, 0) }

quest_20205 == {
  T(0, Start, {}, <<>>, 0),
  T(0, Finish, {}, <<StartQuest, Dispose>>, 0),
  T(0, Finish, {Has(4032100, 30)}, <<YesNo>>, 1),
  T(0, Finish, {Lacks(4032100, 30)}, <<Dispose>>, 0),
  T(1, Yes, {Room(1, 1)}, <<CompleteQuest, Say>>, 2),
  T(1, Yes, {Room(1, 1)}, <<CompleteQuest, Also("changeJob"), Take(4032100, 30), Give(1142067, 1), Say>>, 2),
  T(1, Yes, {Full(1, 1)}, <<Ok, Dispose>>, 0),
  T(1, No, {}, <<Say, Dispose>>, 0),
  T(2, Yes, {}, <<Prev, Dispose>>, 0) }

quest_21001 == {
  T(0, Start, {}, <<Accept>>, 1),
  T(0, Finish, {}, <<YesNo>>, 2),
  T(1, Yes, {}, <<Give(4001271, 1), StartQuest, Also("warp"), Dispose>>, 0),
  T(1, Yes, {}, <<Also("warp"), Dispose>>, 0),
  T(1, No, {}, <<Say, Dispose>>, 0),
  T(2, Yes, {}, <<Say>>, 3),
  T(2, No, {}, <<Say, Dispose>>, 0),
  T(3, Yes, {}, <<NextPrev>>, 4),
  T(4, Yes, {}, <<NextPrev>>, 5),
  T(4, No, {}, <<Say>>, 3),
  T(5, Yes, {}, <<NextPrev>>, 6),
  T(5, No, {}, <<NextPrev>>, 4),
  T(6, Yes, {}, <<NextPrev>>, 7),
  T(6, No, {}, <<NextPrev>>, 5),
  T(7, Yes, {}, <<NextPrev>>, 8),
  T(7, No, {}, <<NextPrev>>, 6),
  T(8, Yes, {}, <<NextPrev>>, 9),
  T(8, No, {}, <<NextPrev>>, 7),
  T(9, Yes, {}, <<YesNo>>, 10),
  T(9, No, {}, <<NextPrev>>, 8),
  T(10, Both, {Has(4001271, 1)}, <<Take(4001271, 1), CompleteQuest, Also("warp"), Dispose>>, 0),
  T(10, Both, {Lacks(4001271, 1)}, <<CompleteQuest, Also("warp"), Dispose>>, 0) }

quest_21010 == {
  T(0, Start, {}, <<Say>>, 1),
  T(0, Finish, {}, <<Say>>, 7),
  T(1, Yes, {}, <<NextPrev>>, 2),
  T(2, Yes, {}, <<NextPrev>>, 3),
  T(2, No, {}, <<Say>>, 1),
  T(3, Yes, {}, <<Accept>>, 4),
  T(3, No, {}, <<NextPrev>>, 2),
  T(4, Yes, {}, <<Say, Give(2000022, 1), StartQuest>>, 5),
  T(4, No, {}, <<Say, Dispose>>, 0),
  T(5, Yes, {}, <<NextPrev>>, 6),
  T(6, Yes, {}, <<Dispose>>, 0),
  T(6, No, {}, <<Say, Give(2000022, 1), StartQuest>>, 5),
  T(7, Yes, {}, <<NextPrev>>, 8),
  T(8, Yes, {}, <<NextPrev, Also("gainExp"), Give(2000022, 5), Give(2000023, 5), CompleteQuest>>, 9),
  T(8, Yes, {}, <<NextPrev>>, 9),
  T(8, No, {}, <<Say>>, 7),
  T(9, Yes, {}, <<NextPrev>>, 10),
  T(9, No, {}, <<NextPrev>>, 8),
  T(10, Yes, {}, <<Dispose>>, 0),
  T(10, No, {}, <<NextPrev, Also("gainExp"), Give(2000022, 5), Give(2000023, 5), CompleteQuest>>, 9),
  T(10, No, {}, <<NextPrev>>, 9) }

quest_21012 == {
  T(0, Start, {}, <<Say>>, 1),
  T(0, Finish, {}, <<YesNo>>, 6),
  T(1, Yes, {}, <<NextPrev>>, 2),
  T(2, Yes, {}, <<Accept>>, 3),
  T(2, No, {}, <<Say>>, 1),
  T(3, Yes, {}, <<StartQuest, Say>>, 4),
  T(3, No, {}, <<Say, Dispose>>, 0),
  T(4, Yes, {}, <<NextPrev>>, 5),
  T(5, Yes, {}, <<Dispose>>, 0),
  T(5, No, {}, <<StartQuest, Say>>, 4),
  T(6, Yes, {}, <<Give(2000022, 10), Give(2000023, 10), Also("gainExp"), CompleteQuest, Ok, Dispose>>, 0),
  T(6, No, {}, <<Say, Dispose>>, 0) }

quest_21013 == {
  T(0, Start, {}, <<Menu>>, 1),
  T(0, Finish, {}, <<Say>>, 4),
  T(1, Yes, {}, <<Accept>>, 2),
  T(2, Yes, {}, <<StartQuest, Say>>, 3),
  T(2, No, {}, <<Say, Dispose>>, 0),
  T(3, Yes, {}, <<Dispose>>, 0),
  T(4, Yes, {}, <<Take(4032309, 1), Take(4032310, 1), Give(3010062, 1), Also("gainExp"), CompleteQuest,
      NextPrev>>, 5),
  T(4, Yes, {}, <<NextPrev>>, 5),
  T(5, Yes, {}, <<NextPrev>>, 6),
  T(5, No, {}, <<Say>>, 4),
  T(6, Yes, {}, <<Dispose>>, 0),
  T(6, No, {}, <<Take(4032309, 1), Take(4032310, 1), Give(3010062, 1), Also("gainExp"), CompleteQuest,
      NextPrev>>, 5),
  T(6, No, {}, <<NextPrev>>, 5) }

quest_21200 == {
  T(0, Start, {}, <<Accept>>, 1),
  T(0, Finish, {}, <<Say>>, 2),
  T(1, Yes, {}, <<StartQuest, Ok, Dispose>>, 0),
  T(1, No, {}, <<Say, Dispose>>, 0),
  T(2, Yes, {}, <<NextPrev>>, 3),
  T(3, Yes, {}, <<NextPrev>>, 4),
  T(3, No, {}, <<Say>>, 2),
  T(4, Yes, {}, <<NextPrev>>, 5),
  T(4, No, {}, <<NextPrev>>, 3),
  T(5, Yes, {}, <<NextPrev>>, 6),
  T(5, No, {}, <<NextPrev>>, 4),
  T(6, Yes, {}, <<NextPrev>>, 7),
  T(6, No, {}, <<NextPrev>>, 5),
  T(7, Yes, {}, <<NextPrev>>, 8),
  T(7, No, {}, <<NextPrev>>, 6),
  T(8, Yes, {}, <<NextPrev>>, 9),
  T(8, No, {}, <<NextPrev>>, 7),
  T(9, Yes, {}, <<NextPrev>>, 10),
  T(9, No, {}, <<NextPrev>>, 8),
  T(10, Yes, {}, <<NextPrev>>, 11),
  T(10, No, {}, <<NextPrev>>, 9),
  T(11, Yes, {}, <<NextPrev>>, 12),
  T(11, No, {}, <<NextPrev>>, 10),
  T(12, Yes, {}, <<YesNo>>, 13),
  T(12, No, {}, <<NextPrev>>, 11),
  T(13, Yes, {}, <<Say, CompleteQuest>>, 14),
  T(13, No, {}, <<Say, Dispose>>, 0),
  T(14, Yes, {}, <<Also("warp"), Dispose>>, 0) }

quest_21401 == {
  T(0, Start, {}, <<Say>>, 1),
  T(0, Finish, {}, <<Say>>, 6),
  T(1, Yes, {}, <<NextPrev>>, 2),
  T(2, Yes, {}, <<NextPrev>>, 3),
  T(2, No, {}, <<Say>>, 1),
  T(3, Yes, {}, <<Accept>>, 4),
  T(3, No, {}, <<NextPrev>>, 2),
  T(4, Yes, {}, <<StartQuest, Say>>, 5),
  T(4, Yes, {}, <<StartQuest, Also("killAllMonsters"), Also("startInstance"), Dispose>>, 0),
  T(4, Yes, {}, <<Say>>, 5),
  T(4, Yes, {}, <<Also("killAllMonsters"), Also("startInstance"), Dispose>>, 0),
  T(4, No, {}, <<Ok, Dispose>>, 0),
  T(5, Yes, {}, <<>>, 0),
  T(6, Yes, {}, <<Accept>>, 7),
  T(7, Yes, {}, <<Say, Dispose, Say>>, 0),
  T(7, Yes, {}, <<Give(1142132, 1), Give(2280003, 1), Say>>, 8),
  T(7, Yes, {}, <<Also("changeJob"), Give(1142132, 1), Give(2280003, 1), Say>>, 8),
  T(7, No, {}, <<Say>>, 6),
  T(8, Yes, {}, <<NextPrev>>, 9),
  T(9, Yes, {}, <<NextPrev>>, 10),
  T(9, No, {}, <<Say, Dispose, Say>>, 0),
  T(9, No, {}, <<Give(1142132, 1), Give(2280003, 1), Say>>, 8),
  T(9, No, {}, <<Also("changeJob"), Give(1142132, 1), Give(2280003, 1), Say>>, 8),
  T(10, Yes, {}, <<CompleteQuest, Dispose>>, 0),
  T(10, No, {}, <<NextPrev>>, 9) }

quest_21703 == {
  T(0, Start, {}, <<Say>>, 1),
  T(0, Finish, {}, <<Say>>, 8),
  T(1, Yes, {}, <<NextPrev>>, 2),
  T(2, Yes, {}, <<NextPrev>>, 3),
  T(2, No, {}, <<Say>>, 1),
  T(3, Yes, {}, <<NextPrev>>, 4),
  T(3, No, {}, <<NextPrev>>, 2),
  T(4, Yes, {}, <<NextPrev>>, 5),
  T(4, No, {}, <<NextPrev>>, 3),
  T(5, Yes, {}, <<NextPrev>>, 6),
  T(5, No, {}, <<NextPrev>>, 4),
  T(6, Yes, {}, <<Accept>>, 7),
  T(6, No, {}, <<NextPrev>>, 5),
  T(7, Yes, {}, <<StartQuest, Ok, Dispose>>, 0),
  T(7, No, {}, <<Say, Dispose>>, 0),
  T(8, Yes, {}, <<NextPrev>>, 9),
  T(9, Yes, {}, <<YesNo>>, 10),
  T(9, No, {}, <<Say>>, 8),
  T(10, Yes, {}, <<CompleteQuest, Also("teachSkill"), Also("gainExp"), Say>>, 11),
  T(10, Yes, {}, <<Say>>, 11),
  T(10, No, {}, <<Say, Dispose>>, 0),
  T(11, Yes, {}, <<Prev, Dispose>>, 0) }

quest_22000 == {
  T(0, Start, {}, <<Say>>, 1),
  T(0, Finish, {}, <<Say>>, 10),
  T(1, Yes, {}, <<NextPrev>>, 2),
  T(2, Yes, {}, <<NextPrev>>, 3),
  T(2, No, {}, <<Say, Dispose>>, 0),
  T(3, Yes, {}, <<NextPrev>>, 4),
  T(3, No, {}, <<Say, Dispose>>, 0),
  T(4, Yes, {}, <<NextPrev>>, 5),
  T(4, No, {}, <<Say, Dispose>>, 0),
  T(5, Yes, {}, <<NextPrev>>, 6),
  T(5, No, {}, <<Say, Dispose>>, 0),
  T(6, Yes, {}, <<NextPrev>>, 7),
  T(6, No, {}, <<Say, Dispose>>, 0),
  T(7, Yes, {}, <<Accept>>, 8),
  T(7, No, {}, <<Say, Dispose>>, 0),
  T(8, Yes, {}, <<StartQuest, Say>>, 9),
  T(8, No, {}, <<Say, Dispose>>, 0),
  T(9, Yes, {}, <<Dispose>>, 0),
  T(10, Yes, {}, <<NextPrev>>, 11),
  T(11, Yes, {}, <<Also("gainExp"), CompleteQuest, Dispose>>, 0),
  T(11, No, {}, <<Dispose>>, 0) }

quest_23205 == {
  T(0, Start, {}, <<Dispose>>, 0) }

QuestScriptsTable == [
  quest_1021 |-> quest_1021, quest_2300 |-> quest_2300, quest_2301 |-> quest_2301, quest_2302 |-> quest_2302,
  quest_2303 |-> quest_2303, quest_2304 |-> quest_2304, quest_2314 |-> quest_2314, quest_2318 |-> quest_2318,
  quest_2322 |-> quest_2322, quest_2324 |-> quest_2324, quest_20013 |-> quest_20013,
  quest_20201 |-> quest_20201, quest_20202 |-> quest_20202, quest_20203 |-> quest_20203,
  quest_20204 |-> quest_20204, quest_20205 |-> quest_20205, quest_21001 |-> quest_21001,
  quest_21010 |-> quest_21010, quest_21012 |-> quest_21012, quest_21013 |-> quest_21013,
  quest_21200 |-> quest_21200, quest_21401 |-> quest_21401, quest_21703 |-> quest_21703,
  quest_22000 |-> quest_22000, quest_23205 |-> quest_23205 ]
================================================================================
