----------------------------- MODULE NpcScripts30 ------------------------------
(* Tables of the scripts of NPCs 30xxxxx. *)
EXTENDS ScriptTables

npc_3001953 == {
  T(0, Start, {}, <<Menu>>, 1),
  T(1, Yes, {Rich(1000000000), Room(4, 1)}, <<Pay(1000000000), Give(4310012, 1), Dispose>>, 0),
  T(1, Yes, {Poor(1000000000), Room(4, 1)}, <<Ok, Dispose>>, 0),
  T(1, Yes, {Full(4, 1)}, <<Ok, Dispose>>, 0),
  T(1, Yes, {Rich(1000000001)}, <<Ok, Dispose>>, 0),
  T(1, Yes, {Has(4310012, 1), Poor(1000000001)}, <<Earn(980000000), Take(4310012, 1), Dispose>>, 0),
  T(1, Yes, {Lacks(4310012, 1), Poor(1000000001)}, <<Ok, Dispose>>, 0) }

\* lines 1 to 165 of 3003302.js
npc_3003302a == {
  T(3, No, {}, <<Dispose>>, 0) }

\* lines 166 to 394 of 3003302.js
npc_3003302b == {
  T(0, Start, {}, <<Menu>>, 1),
  T(1, Yes, {}, <<Menu>>, 2),
  T(2, Yes, {}, <<Also("setStr"), Also("setDex"), Also("setInt"), Also("setLuk"), Also("setWatk"),
      Also("setMatk"), Also("setWdef"), Also("setMdef"), Also("setAvoid"), Also("setAcc"), Also("setJump"),
      Also("setSpeed"), YesNo>>, 3),
  T(3, Yes, {Room(0, 1), Room(1, 1)}, <<Also("gainNX"), Ok, Also("setGMLog"), Also("setFlag"), Give(Some,
      Some), Also("packetLog"), Dispose>>, 0),
  T(3, Yes, {}, <<Ok, Dispose>>, 0) }

\* lines 1 to 104 of 3003302_2.js
npc_3003302_2a == {
  T(0, Start, {}, <<Say>>, 1),
  T(1, Yes, {}, <<Menu>>, 2),
  T(2, Yes, {}, <<Ok, Dispose>>, 0),
  T(2, Yes, {Has(2640010, 1)}, <<Menu>>, 3),
  T(2, Yes, {Has(2640011, 1)}, <<Menu>>, 4),
  T(2, Yes, {Has(2615001, 1)}, <<Menu>>, 5),
  T(3, Yes, {}, <<YesNo>>, 6),
  T(3, Yes, {}, <<Ok, Dispose>>, 0),
  T(3, Yes, {}, <<YesNo>>, 7),
  T(4, Yes, {}, <<YesNo>>, 8),
  T(4, Yes, {}, <<Ok, Dispose>>, 0),
  T(4, Yes, {}, <<YesNo>>, 9),
  T(5, Yes, {}, <<YesNo>>, 9),
  T(5, Yes, {}, <<Ok, Dispose>>, 0),
  T(6, Both, {}, <<Ok, Dispose>>, 0),
  T(6, No, {}, <<Dispose>>, 0) }

\* lines 105 to 254 of 3003302_2.js
npc_3003302_2b == {
  T(5, Yes, {}, <<Ok, Dispose>>, 0),
  T(5, Yes, {}, <<YesNo>>, 10),
  T(6, Yes, {Has(2340000, 1)}, <<Fail>>, 0),
  T(6, Both, {}, <<Ok, Dispose>>, 0),
  T(7, Yes, {}, <<Fail>>, 0),
  T(7, Yes, {}, <<Ok, Dispose>>, 0),
  T(7, No, {}, <<Dispose>>, 0),
  T(8, Yes, {}, <<Fail>>, 0),
  T(8, Both, {}, <<Ok, Dispose>>, 0),
  T(8, No, {Has(2340000, 1)}, <<Fail>>, 0),
  T(9, Both, {}, <<Fail>>, 0),
  T(9, Both, {}, <<Ok, Dispose>>, 0),
  T(10, No, {}, <<Ok, Dispose>>, 0) }

\* lines 255 to 384 of 3003302_2.js
npc_3003302_2c == {
  T(9, Both, {}, <<Fail>>, 0),
  T(9, Both, {}, <<Ok, Dispose>>, 0),
  T(10, Yes, {}, <<>>, 0),
  T(10, No, {}, <<Fail>>, 0),
  T(10, No, {}, <<Ok, Dispose>>, 0) }

\* lines 9 to 158 of 3003302_3.js
npc_3003302_3a == {
  T(0, Start, {}, <<Menu>>, 1),
  T(0, Start, {}, <<Say>>, 1),
  T(1, Yes, {}, <<Menu>>, 2),
  T(2, Yes, {Has(2049100, 1), Rich(500001)}, <<Menu>>, 3),
  T(2, Yes, {}, <<Ok, Dispose>>, 0),
  T(2, Yes, {Has(2049100, 1)}, <<Menu>>, 4),
  T(3, Yes, {}, <<YesNo>>, 5),
  T(3, Yes, {}, <<YesNo>>, 6),
  T(4, Yes, {}, <<YesNo>>, 7),
  T(4, Yes, {}, <<YesNo>>, 8),
  T(5, Yes, {Has(2340000, 1)}, <<Take(2049100, 1), Take(2340000, 1), Pay(500000), Ok, Dispose>>, 0),
  T(5, Yes, {Has(2340000, 1)}, <<Take(2049100, 1), Take(2340000, 1), Pay(500000), YesNo>>, 9),
  T(5, Both, {}, <<Ok, Dispose>>, 0),
  T(6, Yes, {}, <<Fail>>, 0),
  T(6, Yes, {}, <<Pay(500000), Take(2049100, 1), YesNo>>, 9),
  T(6, Both, {}, <<Ok, Dispose>>, 0),
  T(7, Both, {}, <<Ok, Dispose>>, 0),
  T(8, Both, {}, <<Ok, Dispose>>, 0),
  T(9, No, {}, <<Ok, Dispose>>, 0) }

\* lines 159 to 493 of 3003302_3.js
npc_3003302_3b == {
  T(7, Yes, {Has(2340000, 1)}, <<Take(2049100, 1), Take(2340000, 1), Also("gainNX"), Ok, Dispose>>, 0),
  T(7, Yes, {Has(2340000, 1)}, <<Take(2049100, 1), Take(2340000, 1), Also("gainNX"), YesNo>>, 9),
  T(7, Both, {}, <<Ok, Dispose>>, 0),
  T(8, Yes, {}, <<Fail>>, 0),
  T(8, Yes, {}, <<Take(2049100, 1), Also("gainNX"), YesNo>>, 9),
  T(8, Both, {}, <<Ok, Dispose>>, 0),
  T(9, Yes, {}, <<Fail>>, 0) }

\* lines 1 to 107 of 3003302_4.js
npc_3003302_4a == {
  T(0, Start, {}, <<Menu>>, 1),
  T(0, Start, {}, <<Say>>, 1),
  T(1, Yes, {}, <<Say>>, 2),
  T(1, Yes, {}, <<Say>>, 3),
  T(1, Yes, {}, <<Say>>, 4),
  T(1, Yes, {}, <<Say>>, 5),
  T(1, Yes, {}, <<Say>>, 6),
  T(1, Yes, {}, <<Say>>, 7),
  T(1, Yes, {}, <<Say>>, 8),
  T(1, Yes, {}, <<Say>>, 9),
  T(1, Yes, {}, <<Say>>, 10),
  T(1, Yes, {}, <<Say>>, 11),
  T(1, Yes, {}, <<Dispose, Say>>, 0),
  T(1, Yes, {}, <<Dispose, Ok, Dispose>>, 0),
  T(12, No, {}, <<Dispose>>, 0) }

\* lines 108 to 252 of 3003302_4.js
npc_3003302_4b == {
  T(1, Yes, {}, <<Dispose, Ok, Dispose>>, 0),
  T(2, Yes, {}, <<Ok, Dispose>>, 0),
  T(2, Yes, {Has(3992025, 19)}, <<Take(3992025, 19), YesNo>>, 12),
  T(3, Yes, {}, <<Ok, Dispose>>, 0),
  T(3, Yes, {Has(3992025, 49)}, <<Take(3992025, 49), YesNo>>, 12),
  T(3, Yes, {Has(3992025, 49)}, <<Take(3992025, 49), Ok, Dispose>>, 0),
  T(4, Yes, {}, <<Ok, Dispose>>, 0),
  T(4, Yes, {Has(3992025, 99)}, <<Take(3992025, 99), YesNo>>, 12),
  T(4, Yes, {Has(3992025, 99)}, <<Take(3992025, 99), Ok, Dispose>>, 0),
  T(5, Yes, {}, <<Ok, Dispose>>, 0),
  T(5, Yes, {Has(3992025, 169)}, <<Take(3992025, 169), YesNo>>, 12),
  T(5, Yes, {Has(3992025, 169)}, <<Take(3992025, 169), Ok, Dispose>>, 0),
  T(6, Yes, {}, <<Ok, Dispose>>, 0),
  T(6, Yes, {Has(3992025, 259)}, <<Take(3992025, 259), YesNo>>, 12),
  T(6, Yes, {Has(3992025, 259)}, <<Take(3992025, 259), Ok, Dispose>>, 0),
  T(7, Yes, {}, <<Ok, Dispose>>, 0),
  T(7, Yes, {Has(3992025, 369)}, <<Take(3992025, 369), YesNo>>, 12),
  T(7, Yes, {Has(3992025, 369)}, <<Take(3992025, 369), Ok, Dispose>>, 0),
  T(8, Yes, {}, <<Ok, Dispose>>, 0),
  T(8, Yes, {Has(3992025, 499)}, <<Take(3992025, 499), YesNo>>, 12),
  T(8, Yes, {Has(3992025, 499)}, <<Take(3992025, 499), Ok, Dispose>>, 0),
  T(9, Yes, {}, <<Ok, Dispose>>, 0),
  T(9, Yes, {Has(3992025, 649)}, <<Take(3992025, 649), YesNo>>, 12),
  T(9, Yes, {Has(3992025, 649)}, <<Take(3992025, 649), Fail>>, 0),
  T(10, Yes, {}, <<Ok, Dispose>>, 0),
  T(10, Yes, {Has(3992025, 819)}, <<Take(3992025, 819), YesNo>>, 12),
  T(10, Yes, {Has(3992025, 819)}, <<Take(3992025, 819), Fail>>, 0),
  T(11, Yes, {}, <<Ok, Dispose>>, 0),
  T(11, Yes, {Has(3992025, 1009)}, <<Take(3992025, 1009), YesNo>>, 12),
  T(11, Yes, {Has(3992025, 1009)}, <<Take(3992025, 1009), Fail>>, 0),
  T(12, Yes, {}, <<Fail>>, 0) }

\* lines 1 to 123 of 3003302_5.js
npc_3003302_5a == {
  T(0, Start, {}, <<Menu>>, 1),
  T(0, Start, {}, <<Say>>, 1),
  T(1, Yes, {}, <<Number>>, 2),
  T(2, Yes, {}, <<Say>>, 3),
  T(2, Yes, {}, <<Say>>, 4),
  T(2, Yes, {}, <<Say>>, 5),
  T(2, Yes, {}, <<Say>>, 6),
  T(2, Yes, {}, <<Say>>, 7),
  T(2, Yes, {}, <<Say>>, 8),
  T(2, Yes, {}, <<Say>>, 9),
  T(2, Yes, {}, <<Say>>, 10),
  T(2, Yes, {}, <<Say>>, 11),
  T(2, Yes, {}, <<Say>>, 12),
  T(2, Yes, {}, <<Dispose, Say>>, 0),
  T(2, Yes, {}, <<Dispose, Ok, Dispose>>, 0),
  T(2, No, {}, <<Ok, Dispose>>, 0),
  T(3, Yes, {}, <<Ok, Dispose>>, 0),
  T(4, Yes, {}, <<Ok, Dispose>>, 0),
  T(5, Yes, {}, <<Ok, Dispose>>, 0),
  T(6, Yes, {}, <<Ok, Dispose>>, 0),
  T(7, Yes, {}, <<Ok, Dispose>>, 0),
  T(8, Yes, {}, <<Ok, Dispose>>, 0),
  T(9, Yes, {}, <<Ok, Dispose>>, 0),
  T(10, Yes, {}, <<Ok, Dispose>>, 0),
  T(11, Yes, {}, <<Ok, Dispose>>, 0),
  T(12, Yes, {}, <<Ok, Dispose>>, 0),
  T(13, No, {}, <<Ok, Dispose>>, 0) }

\* lines 124 to 269 of 3003302_5.js
npc_3003302_5b == {
  T(3, Yes, {}, <<Ok, Dispose>>, 0),
  T(3, Yes, {Has(3992025, 19)}, <<Take(3992025, 19), Take(2530000, Some), YesNo>>, 13),
  T(3, Yes, {Has(3992025, 19)}, <<Take(3992025, 19), Fail>>, 0),
  T(3, Yes, {Has(3992025, 19)}, <<Take(3992025, 19), Give(3992025, Some), Ok, Dispose>>, 0),
  T(4, Yes, {}, <<Ok, Dispose>>, 0),
  T(4, Yes, {Has(3992025, 49)}, <<Take(3992025, 49), Take(2530000, Some), YesNo>>, 13),
  T(4, Yes, {Has(3992025, 49)}, <<Take(3992025, 49), Fail>>, 0),
  T(4, Yes, {Has(3992025, 49)}, <<Take(3992025, 49), Give(3992025, Some), Ok, Dispose>>, 0),
  T(5, Yes, {}, <<Ok, Dispose>>, 0),
  T(5, Yes, {Has(3992025, 99)}, <<Take(3992025, 99), Take(2530000, Some), YesNo>>, 13),
  T(5, Yes, {Has(3992025, 99)}, <<Take(3992025, 99), Fail>>, 0),
  T(5, Yes, {Has(3992025, 99)}, <<Take(3992025, 99), Give(3992025, Some), Ok, Dispose>>, 0),
  T(6, Yes, {}, <<Ok, Dispose>>, 0),
  T(6, Yes, {Has(3992025, 169)}, <<Take(3992025, 169), Take(2530000, Some), YesNo>>, 13),
  T(6, Yes, {Has(3992025, 169)}, <<Take(3992025, 169), Fail>>, 0),
  T(6, Yes, {Has(3992025, 169)}, <<Take(3992025, 169), Give(3992025, Some), Ok, Dispose>>, 0),
  T(7, Yes, {}, <<Ok, Dispose>>, 0),
  T(7, Yes, {Has(3992025, 259)}, <<Take(3992025, 259), Take(2530000, Some), YesNo>>, 13),
  T(7, Yes, {Has(3992025, 259)}, <<Take(3992025, 259), Fail>>, 0),
  T(7, Yes, {Has(3992025, 259)}, <<Take(3992025, 259), Give(3992025, Some), Ok, Dispose>>, 0),
  T(8, Yes, {}, <<Ok, Dispose>>, 0),
  T(8, Yes, {Has(3992025, 369)}, <<Take(3992025, 369), Take(2530000, Some), YesNo>>, 13),
  T(8, Yes, {Has(3992025, 369)}, <<Take(3992025, 369), Fail>>, 0),
  T(8, Yes, {Has(3992025, 369)}, <<Take(3992025, 369), Give(3992025, Some), Ok, Dispose>>, 0),
  T(9, Yes, {}, <<Ok, Dispose>>, 0),
  T(9, Yes, {Has(3992025, 499)}, <<Take(3992025, 499), Take(2530000, Some), YesNo>>, 13),
  T(9, Yes, {Has(3992025, 499)}, <<Take(3992025, 499), Fail>>, 0),
  T(9, Yes, {Has(3992025, 499)}, <<Take(3992025, 499), Give(3992025, Some), Ok, Dispose>>, 0),
  T(10, Yes, {}, <<Ok, Dispose>>, 0),
  T(10, Yes, {Has(3992025, 649)}, <<Take(3992025, 649), Take(2530000, Some), YesNo>>, 13),
  T(10, Yes, {Has(3992025, 649)}, <<Take(3992025, 649), Fail>>, 0),
  T(10, Yes, {Has(3992025, 649)}, <<Take(3992025, 649), Give(3992025, Some), Ok, Dispose>>, 0),
  T(11, Yes, {}, <<Ok, Dispose>>, 0),
  T(11, Yes, {Has(3992025, 819)}, <<Take(3992025, 819), Take(2530000, Some), YesNo>>, 13),
  T(11, Yes, {Has(3992025, 819)}, <<Take(3992025, 819), Fail>>, 0),
  T(11, Yes, {Has(3992025, 819)}, <<Take(3992025, 819), Give(3992025, Some), Ok, Dispose>>, 0),
  T(12, Yes, {}, <<Ok, Dispose>>, 0),
  T(12, Yes, {Has(3992025, 1009)}, <<Take(3992025, 1009), Take(2530000, Some), YesNo>>, 13),
  T(12, Yes, {Has(3992025, 1009)}, <<Take(3992025, 1009), Fail>>, 0),
  T(12, Yes, {Has(3992025, 1009)}, <<Take(3992025, 1009), Give(3992025, Some), Ok, Dispose>>, 0),
  T(13, Yes, {}, <<Fail>>, 0) }

npc_3003302_6 == {
  T(0, Start, {}, <<Say>>, 1),
  T(1, Yes, {}, <<Ok>>, 2),
  T(1, Yes, {}, <<YesNo>>, 3),
  T(2, Yes, {}, <<Say>>, 1),
  T(3, Yes, {}, <<Ok>>, 2),
  T(3, Yes, {Has(3992010, 100)}, <<Take(3992010, 100), Fail>>, 0),
  T(3, No, {}, <<Say>>, 1) }

npc_3003323 == {
  T(0, Start, {}, <<Say>>, 1),
  T(1, Yes, {}, <<>>, 0) }

npc_3003324_2 == {
  T(0, Start, {}, <<Ok, Also("setzb"), Give(4001322, 1), SafeDispose>>, 0),
  T(0, Start, {Room(0, 1)}, <<Give(Some, 1), Also("setzb"), Take(1442029, 1), Give(1442029, 1), Ok,
      SafeDispose>>, 0),
  T(0, Start, {Room(0, 1)}, <<Give(Some, 1), Also("setzb"), Ok, SafeDispose>>, 0),
  T(0, Start, {}, <<Ok, SafeDispose>>, 0) }

npc_3003324_5 == {
  T(0, Start, {}, <<Fail>>, 0) }

npc_3003324_822 == {
  T(0, Start, {}, <<Ok, Dispose>>, 0),
  T(0, Start, {}, <<YesNo>>, 1),
  T(1, Both, {}, <<Ok, Dispose>>, 0),
  T(1, Yes, {Has(4000313, 50), Has(4000463, 5), Has(4001083, 1), Rich(20000000)}, <<Take(4001083, 1),
      Take(4000313, 50), Take(4000463, 5), Pay(20000000), Also("setBossLog"), Also("setStr"), Also("setDex"),
      Also("setInt"), Also("setLuk"), Also("setWatk"), Also("setMatk"), Also("refresh"), Dispose>>, 0) }

npc_3003331 == {
  T(0, Start, {}, <<Menu>>, 1),
  T(0, Start, {}, <<Say>>, 2),
  T(1, Yes, {}, <<Dispose, OpenNpc>>, 0),
  T(2, Yes, {}, <<>>, 0) }

\* lines 1 to 117 of 3003332_100.js
npc_3003332_100a == {
  T(0, Start, {}, <<Ok, Dispose>>, 0),
  T(0, Start, {}, <<Ok, Dispose, Ok, Dispose>>, 0),
  T(0, Start, {}, <<Ok, Dispose, Say, Dispose>>, 0) }

\* lines 118 to 330 of 3003332_100.js
npc_3003332_100b == {
  T(0, Start, {}, <<Say, Dispose>>, 0),
  T(0, Start, {}, <<Ok, Dispose, Say, Dispose>>, 0) }

\* lines 1 to 106 of 3003332_144.js
npc_3003332_144a == {
  T(0, Start, {}, <<Menu>>, 1),
  T(1, Yes, {Has(4001239, 1)}, <<Take(4001239, 1), Give(1142574, 1), Give(5150038, 1), Earn(2000000),
      Also("gainDY"), Also("modifyCSPoints"), Dispose>>, 0) }

\* lines 107 to 298 of 3003332_144.js
npc_3003332_144b == {
  T(1, Yes, {Lacks(4001239, 1)}, <<Ok, Dispose>>, 0) }

npc_3003382 == {
  T(0, Start, {}, <<Menu>>, 1),
  T(0, Start, {}, <<Say>>, 2),
  T(1, Yes, {}, <<Dispose, OpenNpc>>, 0),
  T(2, Yes, {}, <<>>, 0) }

npc_3003383 == {
  T(0, Start, {}, <<Menu>>, 1),
  T(0, Start, {}, <<Say>>, 2),
  T(1, Yes, {}, <<Ok, Dispose>>, 0),
  T(1, Yes, {}, <<Also("setLevel"), Also("setExp"), Also("setOneTimeLog"), Give(4310059, 1), Ok, Dispose>>, 0),
  T(1, Yes, {}, <<Dispose, OpenNpc>>, 0),
  T(2, Yes, {}, <<>>, 0) }

npc_3003385 == {
  T(0, Start, {}, <<Menu>>, 1),
  T(1, Yes, {}, <<Dispose, OpenNpc>>, 0) }

npc_3003385_70 == {
  T(0, Start, {}, <<Menu>>, 1),
  T(1, Yes, {}, <<Dispose, OpenNpc>>, 0) }

\* lines 1 to 159 of 3003385_71.js
npc_3003385_71a == {
  T(0, Start, {}, <<Menu>>, 1),
  T(0, Start, {}, <<Menu>>, 2),
  T(1, Yes, {}, <<Dispose>>, 0),
  T(1, Yes, {}, <<Number>>, 3),
  T(1, Yes, {}, <<Dispose, OpenNpc>>, 0),
  T(2, Yes, {}, <<Dispose>>, 0),
  T(2, Yes, {}, <<Dispose, OpenNpc>>, 0),
  T(3, No, {}, <<Menu>>, 1),
  T(3, No, {}, <<Menu>>, 2) }

\* lines 160 to 403 of 3003385_71.js
npc_3003385_71b == {
  T(1, Yes, {}, <<Dispose, OpenNpc>>, 0),
  T(2, Yes, {}, <<Dispose, OpenNpc>>, 0),
  T(3, Yes, {}, <<Also("setmoneyb"), Also("executeUpdate"), Ok, Also("setBossRankCount8"), Ok, Dispose>>, 0),
  T(3, Yes, {}, <<Also("setmoneyb"), Also("executeUpdate"), Ok, Also("setBossRankCount8"), Ok,
      Also("executeUpdate"), Dispose>>, 0),
  T(3, Yes, {}, <<Also("setmoneyb"), Also("executeUpdate"), Ok, Also("setBossRankCount8"),
      Also("executeUpdate"), Ok, Dispose>>, 0),
  T(3, Yes, {}, <<Ok, Dispose>>, 0) }

\* lines 14 to 177 of 3003385_1893.js
npc_3003385_1893a == {
  T(4, No, {}, <<Dispose>>, 0) }

\* lines 178 to 412 of 3003385_1893.js
npc_3003385_1893b == {
  T(0, Start, {}, <<Menu>>, 1),
  T(1, Yes, {}, <<Menu>>, 2),
  T(1, Yes, {}, <<Menu>>, 3),
  T(2, Yes, {}, <<Also("setStr"), Also("setDex"), Also("setInt"), Also("setLuk"), Also("setWatk"),
      Also("setMatk"), Also("setWdef"), Also("setMdef"), Also("setAvoid"), Also("setAcc"), Also("setJump"),
      Also("setSpeed"), YesNo>>, 4),
  T(2, Yes, {}, <<Dispose>>, 0),
  T(3, Yes, {}, <<Also("setStr"), Also("setDex"), Also("setInt"), Also("setLuk"), Also("setHp"),
      Also("setMp"), Also("setWatk"), Also("setMatk"), Also("setWdef"), Also("setMdef"), Also("setAvoid"),
      Also("setAcc"), Also("setJump"), Also("setSpeed"), YesNo>>, 4),
  T(3, Yes, {}, <<Dispose>>, 0),
  T(4, Yes, {Room(0, 1), Room(1, 1)}, <<Also("gainNX"), Ok, Also("setGMLog"), Also("setFlag"), Give(Some,
      Some), Also("packetLog"), Dispose>>, 0),
  T(4, Yes, {}, <<Ok, Dispose>>, 0) }

npc_3003724 == {
  T(0, Start, {}, <<Menu>>, 1),
  T(0, Start, {}, <<Say>>, 2),
  T(1, Yes, {}, <<Also("warpParty"), Dispose>>, 0),
  T(2, Yes, {}, <<>>, 0) }

\* lines 5 to 299 of 3004661.js
npc_3004661a == {
  T(0, Start, {}, <<Menu>>, 1),
  T(0, Start, {}, <<Menu>>, 2),
  T(0, Start, {}, <<Say>>, 3),
  T(0, Start, {}, <<Menu>>, 4),
  T(0, Start, {}, <<Menu>>, 5),
  T(0, Start, {}, <<Menu>>, 6),
  T(0, Start, {}, <<Menu>>, 7),
  T(0, Start, {}, <<Menu>>, 8),
  T(0, Start, {}, <<Menu>>, 9),
  T(0, Start, {}, <<Menu>>, 10),
  T(0, Start, {}, <<Menu>>, 11),
  T(0, Start, {}, <<Menu>>, 12),
  T(0, Start, {}, <<Menu>>, 13),
  T(0, Start, {}, <<Menu>>, 14),
  T(0, Start, {}, <<Menu>>, 15),
  T(0, Start, {}, <<Menu>>, 16),
  T(0, Start, {}, <<Menu>>, 17),
  T(0, Start, {}, <<Menu>>, 18),
  T(0, Start, {}, <<Menu>>, 19),
  T(0, Start, {}, <<Menu>>, 20),
  T(0, Start, {}, <<Menu>>, 21),
  T(0, Start, {}, <<Menu>>, 22),
  T(0, Start, {}, <<Menu>>, 23),
  T(0, Start, {}, <<Menu>>, 24),
  T(0, Start, {}, <<Menu>>, 25),
  T(0, Start, {}, <<Menu>>, 26),
  T(0, Start, {}, <<Menu>>, 27) }

\* lines 300 to 453 of 3004661.js
npc_3004661b == {
  T(1, Yes, {Has(4000002, 100), Has(4000017, 100), Room(0, 3)}, <<Take(4000002, 100), Take(4000017, 100),
      Earn(40000), Give(4250200, 5), Give(4250400, 5), Give(1142001, 1), Also("gainExp"),
      Also("setOneTimeLog"), Ok, Dispose>>, 0),
  T(1, Yes, {Full(0, 3), Has(4000002, 100), Has(4000017, 100)}, <<Ok, Dispose>>, 0),
  T(1, Yes, {Has(4000002, 100), Lacks(4000017, 100)}, <<Ok, Dispose>>, 0),
  T(1, Yes, {Lacks(4000002, 100)}, <<Ok, Dispose>>, 0),
  T(2, Yes, {Has(4000008, 100), Has(4000015, 100), Room(0, 5)}, <<Take(4000015, 100), Take(4000008, 100),
      Earn(60000), Give(4250500, 5), Give(1112444, 1), Give(4310150, 5), Also("gainExp"), Also("gainDY"),
      Also("setOneTimeLog"), Ok, Dispose>>, 0),
  T(2, Yes, {Full(0, 5), Has(4000008, 100), Has(4000015, 100)}, <<Ok, Dispose>>, 0),
  T(2, Yes, {Has(4000015, 100), Lacks(4000008, 100)}, <<Ok, Dispose>>, 0),
  T(2, Yes, {Lacks(4000015, 100)}, <<Ok, Dispose>>, 0),
  T(4, Yes, {Has(4170000, 10), Room(0, 5)}, <<Take(4170000, 10), Earn(80000), Give(4250700, 5), Give(4250300,
      5), Give(1112742, 1), Give(1050018, 1), Also("gainExp"), Also("gainDY"), Also("setOneTimeLog"), Ok,
      Dispose>>, 0),
  T(4, Yes, {Full(0, 5), Has(4170000, 10)}, <<Ok, Dispose>>, 0),
  T(4, Yes, {Lacks(4170000, 10)}, <<Ok, Dispose>>, 0),
  T(5, Yes, {Has(4000106, 150), Has(4000107, 150), Room(0, 5)}, <<Take(4000106, 150), Take(4000107, 150),
      Earn(100000), Give(4250100, 5), Give(4250600, 5), Give(1132000, 1), Give(4001126, 10), Also("gainExp"),
      Also("gainDY"), Also("setOneTimeLog"), Ok, Dispose>>, 0),
  T(5, Yes, {Full(0, 5), Has(4000106, 150), Has(4000107, 150)}, <<Ok, Dispose>>, 0),
  T(5, Yes, {Has(4000106, 150), Lacks(4000107, 150)}, <<Ok, Dispose>>, 0),
  T(5, Yes, {Lacks(4000106, 150)}, <<Ok, Dispose>>, 0) }

\* lines 454 to 611 of 3004661.js
npc_3004661c == {
  T(5, Yes, {Full(0, 5), Has(4000106, 150), Has(4000107, 150)}, <<Ok, Dispose>>, 0),
  T(5, Yes, {Has(4000106, 150), Lacks(4000107, 150)}, <<Ok, Dispose>>, 0),
  T(5, Yes, {Lacks(4000106, 150)}, <<Ok, Dispose>>, 0),
  T(6, Yes, {Has(4000169, 150), Has(4000170, 150), Room(0, 5)}, <<Take(4000170, 150), Take(4000169, 150),
      Give(4250000, 5), Give(4251300, 5), Give(4000463, 5), Give(1112743, 1), Earn(120000), Also("gainExp"),
      Also("gainDY"), Also("setOneTimeLog"), Ok, Dispose>>, 0),
  T(6, Yes, {Full(0, 5), Has(4000169, 150), Has(4000170, 150)}, <<Ok, Dispose>>, 0),
  T(6, Yes, {Has(4000170, 150), Lacks(4000169, 150)}, <<Ok, Dispose>>, 0),
  T(6, Yes, {Lacks(4000170, 150)}, <<Ok, Dispose>>, 0),
  T(7, Yes, {Has(4000276, 200), Has(4000277, 200), Room(0, 5)}, <<Take(4000276, 200), Take(4000277, 200),
      Earn(140000), Give(4250201, 2), Give(4250401, 2), Give(4004000, 20), Give(4004001, 20), Give(1142005,
      1), Also("gainExp"), Also("gainDY"), Also("setOneTimeLog"), Ok, Dispose>>, 0),
  T(7, Yes, {Full(0, 5), Has(4000276, 200), Has(4000277, 200)}, <<Ok, Dispose>>, 0),
  T(7, Yes, {Has(4000276, 200), Lacks(4000277, 200)}, <<Ok, Dispose>>, 0),
  T(7, Yes, {Lacks(4000276, 200)}, <<Ok, Dispose>>, 0),
  T(8, Yes, {Has(4000115, 400), Room(0, 5)}, <<Take(4000115, 400), Earn(160000), Give(1132139, 1),
      Give(4250501, 2), Give(4250700, 2), Give(4004002, 20), Give(4004003, 20), Also("gainExp"),
      Also("gainDY"), Also("setOneTimeLog"), Ok, Dispose>>, 0),
  T(8, Yes, {Full(0, 5), Has(4000115, 400)}, <<Ok, Dispose>>, 0),
  T(8, Yes, {Lacks(4000115, 400)}, <<Ok, Dispose>>, 0),
  T(9, Yes, {Has(4000086, 250), Has(4000088, 250), Room(0, 5)}, <<Take(4000086, 250), Take(4000088, 250),
      Earn(180000), Give(1112795, 1), Give(4250301, 2), Give(4250101, 2), Give(4004004, 10), Give(3010094,
      1), Also("gainExp"), Also("gainDY"), Also("setOneTimeLog"), Ok, Dispose>>, 0),
  T(9, Yes, {Full(0, 5), Has(4000086, 250), Has(4000088, 250)}, <<Ok, Dispose>>, 0),
  T(9, Yes, {Has(4000088, 250), Lacks(4000086, 250)}, <<Ok, Dispose>>, 0),
  T(9, Yes, {Lacks(4000088, 250)}, <<Ok, Dispose>>, 0) }

\* lines 612 to 771 of 3004661.js
npc_3004661d == {
  T(9, Yes, {Full(0, 5), Has(4000086, 250), Has(4000088, 250)}, <<Ok, Dispose>>, 0),
  T(9, Yes, {Has(4000088, 250), Lacks(4000086, 250)}, <<Ok, Dispose>>, 0),
  T(9, Yes, {Lacks(4000088, 250)}, <<Ok, Dispose>>, 0),
  T(10, Yes, {Has(4000025, 300), Has(4000177, 300), Room(0, 5)}, <<Take(4000177, 300), Take(4000025, 300),
      Earn(200000), Give(4250601, 2), Give(4250001, 2), Give(1142298, 1), Give(4310150, 2), Give(4000313,
      10), Also("gainExp"), Also("gainDY"), Also("setOneTimeLog"), Ok, Dispose>>, 0),
  T(10, Yes, {Full(0, 5), Has(4000025, 300), Has(4000177, 300)}, <<Ok, Dispose>>, 0),
  T(10, Yes, {Has(4000177, 300), Lacks(4000025, 300)}, <<Ok, Dispose>>, 0),
  T(10, Yes, {Lacks(4000177, 300)}, <<Ok, Dispose>>, 0),
  T(11, Yes, {Has(4000289, 300), Has(4000299, 300), Room(0, 5)}, <<Take(4000289, 300), Take(4000299, 300),
      Give(4251301, 2), Give(4000463, 5), Give(3010110, 1), Give(4310150, 4), Give(4000313, 15),
      Earn(220000), Also("gainExp"), Also("gainDY"), Also("setOneTimeLog"), Ok, Dispose>>, 0),
  T(11, Yes, {Full(0, 5), Has(4000289, 300), Has(4000299, 300)}, <<Ok, Dispose>>, 0),
  T(11, Yes, {Has(4000289, 300), Lacks(4000299, 300)}, <<Ok, Dispose>>, 0),
  T(11, Yes, {Lacks(4000289, 300)}, <<Ok, Dispose>>, 0),
  T(12, Yes, {Has(4000032, 300), Has(4000034, 300), Room(0, 5)}, <<Take(4000032, 300), Take(4000034, 300),
      Earn(240000), Give(4250202, 1), Give(4250402, 1), Give(1132151, 1), Give(4310150, 6), Give(4000313,
      20), Also("gainExp"), Also("gainDY"), Also("setOneTimeLog"), Ok, Dispose>>, 0),
  T(12, Yes, {Full(0, 5), Has(4000032, 300), Has(4000034, 300)}, <<Ok, Dispose>>, 0),
  T(12, Yes, {Has(4000032, 300), Lacks(4000034, 300)}, <<Ok, Dispose>>, 0),
  T(12, Yes, {Lacks(4000032, 300)}, <<Ok, Dispose>>, 0),
  T(13, Yes, {Has(4000040, 16), Has(4000176, 16), Room(0, 5)}, <<Take(4000040, 16), Take(4000176, 16),
      Give(4250502, 1), Give(4250702, 1), Give(1142367, 1), Give(4000463, 10), Give(4000038, 2),
      Earn(300000), Also("gainExp"), Also("gainDY"), Also("setOneTimeLog"), Ok, Dispose>>, 0),
  T(13, Yes, {Full(0, 5), Has(4000040, 16), Has(4000176, 16)}, <<Ok, Dispose>>, 0),
  T(13, Yes, {Has(4000040, 16), Lacks(4000176, 16)}, <<Ok, Dispose>>, 0),
  T(13, Yes, {Lacks(4000040, 16)}, <<Ok, Dispose>>, 0) }

\* lines 772 to 931 of 3004661.js
npc_3004661e == {
  T(13, Yes, {Full(0, 5), Has(4000040, 16), Has(4000176, 16)}, <<Ok, Dispose>>, 0),
  T(13, Yes, {Has(4000040, 16), Lacks(4000176, 16)}, <<Ok, Dispose>>, 0),
  T(13, Yes, {Lacks(4000040, 16)}, <<Ok, Dispose>>, 0),
  T(14, Yes, {Has(4000020, 300), Has(4000178, 300), Room(0, 5)}, <<Take(4000020, 300), Take(4000178, 300),
      Give(4250302, 1), Give(4250102, 1), Give(1002758, 1), Give(4000038, 3), Earn(330000), Also("gainExp"),
      Also("gainDY"), Also("setOneTimeLog"), Ok, Dispose>>, 0),
  T(14, Yes, {Full(0, 5), Has(4000020, 300), Has(4000178, 300)}, <<Ok, Dispose>>, 0),
  T(14, Yes, {Has(4000020, 300), Lacks(4000178, 300)}, <<Ok, Dispose>>, 0),
  T(14, Yes, {Lacks(4000020, 300)}, <<Ok, Dispose>>, 0),
  T(15, Yes, {Has(4000023, 300), Has(4000030, 300), Room(0, 5)}, <<Take(4000023, 300), Take(4000030, 300),
      Give(4250602, 1), Give(4250002, 1), Give(1142898, 1), Give(4032391, 10), Give(4032392, 10),
      Earn(360000), Also("gainExp"), Also("gainDY"), Also("setOneTimeLog"), Ok, Dispose>>, 0),
  T(15, Yes, {Full(0, 5), Has(4000023, 300), Has(4000030, 300)}, <<Ok, Dispose>>, 0),
  T(15, Yes, {Has(4000023, 300), Lacks(4000030, 300)}, <<Ok, Dispose>>, 0),
  T(15, Yes, {Lacks(4000023, 300)}, <<Ok, Dispose>>, 0),
  T(16, Yes, {Has(4000206, 350), Has(4000207, 350), Room(0, 5)}, <<Take(4000206, 350), Take(4000207, 350),
      Earn(400000), Give(4251302, 1), Give(1022236, 1), Give(4005000, 3), Give(4005001, 10), Also("gainExp"),
      Also("gainDY"), Also("setOneTimeLog"), Ok, Dispose>>, 0),
  T(16, Yes, {Full(0, 5), Has(4000206, 350), Has(4000207, 350)}, <<Ok, Dispose>>, 0),
  T(16, Yes, {Has(4000206, 350), Lacks(4000207, 350)}, <<Ok, Dispose>>, 0),
  T(16, Yes, {Lacks(4000206, 350)}, <<Ok, Dispose>>, 0),
  T(17, Yes, {Has(4000029, 400), Has(4000031, 400), Room(0, 5)}, <<Take(4000029, 400), Take(4000031, 400),
      Earn(440000), Give(3015172, 1), Give(4032391, 10), Give(4032392, 10), Give(4005002, 3), Give(4005003,
      3), Also("gainExp"), Also("gainDY"), Also("setOneTimeLog"), Ok, Dispose>>, 0),
  T(17, Yes, {Full(0, 5), Has(4000029, 400), Has(4000031, 400)}, <<Ok, Dispose>>, 0),
  T(17, Yes, {Has(4000029, 400), Lacks(4000031, 400)}, <<Ok, Dispose>>, 0),
  T(17, Yes, {Lacks(4000029, 400)}, <<Ok, Dispose>>, 0) }

\* lines 932 to 1078 of 3004661.js
npc_3004661f == {
  T(17, Yes, {Full(0, 5), Has(4000029, 400), Has(4000031, 400)}, <<Ok, Dispose>>, 0),
  T(17, Yes, {Has(4000029, 400), Lacks(4000031, 400)}, <<Ok, Dispose>>, 0),
  T(17, Yes, {Lacks(4000029, 400)}, <<Ok, Dispose>>, 0),
  T(18, Yes, {Has(4000070, 220), Has(4000071, 220), Has(4000072, 220), Room(0, 5)}, <<Take(4000070, 220),
      Take(4000071, 220), Take(4000072, 220), Earn(480000), Give(4000038, 5), Give(4310150, 10),
      Give(4000313, 100), Give(4005004, 3), Give(4001126, 100), Also("gainExp"), Also("gainDY"),
      Also("setOneTimeLog"), Ok, Dispose>>, 0),
  T(18, Yes, {Full(0, 5), Has(4000070, 220), Has(4000071, 220), Has(4000072, 220)}, <<Ok, Dispose>>, 0),
  T(18, Yes, {Has(4000070, 220), Has(4000071, 220), Lacks(4000072, 220)}, <<Ok, Dispose>>, 0),
  T(18, Yes, {Has(4000070, 220), Lacks(4000071, 220)}, <<Ok, Dispose>>, 0),
  T(18, Yes, {Lacks(4000070, 220)}, <<Ok, Dispose>>, 0),
  T(19, Yes, {Has(4000060, 450), Has(4000061, 450), Room(0, 5)}, <<Take(4000060, 450), Take(4000061, 450),
      Give(4250201, 5), Give(4310150, 5), Give(4250701, 5), Give(4250301, 5), Give(4250101, 5), Earn(520000),
      Also("gainExp"), Also("gainDY"), Also("setOneTimeLog"), Ok, Dispose>>, 0),
  T(19, Yes, {Full(0, 5), Has(4000060, 450), Has(4000061, 450)}, <<Ok, Dispose>>, 0),
  T(19, Yes, {Has(4000060, 450), Lacks(4000061, 450)}, <<Ok, Dispose>>, 0),
  T(19, Yes, {Lacks(4000060, 450)}, <<Ok, Dispose>>, 0),
  T(20, Yes, {Has(4000051, 450), Has(4000052, 450), Room(0, 5)}, <<Take(4000051, 450), Take(4000052, 450),
      Give(4250601, 5), Give(4250001, 5), Give(4251301, 5), Give(4251301, 5), Give(4032391, 20),
      Give(4032392, 20), Earn(550000), Also("gainExp"), Also("gainDY"), Also("setOneTimeLog"), Ok, Dispose>>,
      0),
  T(20, Yes, {Full(0, 5), Has(4000051, 450), Has(4000052, 450)}, <<Ok, Dispose>>, 0),
  T(20, Yes, {Has(4000051, 450), Lacks(4000052, 450)}, <<Ok, Dispose>>, 0),
  T(20, Yes, {Lacks(4000051, 450)}, <<Ok, Dispose>>, 0),
  T(21, Yes, {Full(0, 5), Has(4000049, 200), Has(4000050, 200)}, <<Ok, Dispose>>, 0),
  T(21, Yes, {Has(4000049, 200), Lacks(4000050, 200)}, <<Ok, Dispose>>, 0),
  T(21, Yes, {Lacks(4000049, 200)}, <<Ok, Dispose>>, 0) }

\* lines 1079 to 1218 of 3004661.js
npc_3004661g == {
  T(21, Yes, {Has(4000049, 200), Has(4000050, 200), Room(0, 5)}, <<Take(4000049, 200), Take(4000050, 200),
      Give(4250202, 2), Give(4250402, 2), Give(4250502, 2), Give(4250702, 2), Give(4250302, 2), Give(4250102,
      2), Earn(580000), Also("gainExp"), Also("gainDY"), Also("setOneTimeLog"), Ok, Dispose>>, 0),
  T(21, Yes, {Full(0, 5), Has(4000049, 200), Has(4000050, 200)}, <<Ok, Dispose>>, 0),
  T(21, Yes, {Has(4000049, 200), Lacks(4000050, 200)}, <<Ok, Dispose>>, 0),
  T(21, Yes, {Lacks(4000049, 200)}, <<Ok, Dispose>>, 0),
  T(22, Yes, {Has(4000069, 450), Has(4000076, 450), Room(0, 5)}, <<Take(4000069, 450), Take(4000076, 450),
      Give(4250602, 2), Give(4250002, 2), Give(4251302, 2), Give(4032391, 50), Give(4032392, 50),
      Give(1072872, 1), Earn(620000), Also("gainExp"), Also("gainDY"), Also("setOneTimeLog"), Ok, Dispose>>, 0),
  T(22, Yes, {Full(0, 5), Has(4000069, 450), Has(4000076, 450)}, <<Ok, Dispose>>, 0),
  T(22, Yes, {Has(4000069, 450), Lacks(4000076, 450)}, <<Ok, Dispose>>, 0),
  T(22, Yes, {Lacks(4000069, 450)}, <<Ok, Dispose>>, 0),
  T(23, Yes, {Has(4000284, 500), Has(4000285, 500), Room(0, 5)}, <<Take(4000284, 500), Take(4000285, 500),
      Give(2340000, 2), Give(2049117, 2), Give(3010142, 1), Give(1102163, 1), Give(4251200, 1), Give(4000463,
      20), Earn(660000), Also("gainExp"), Also("gainDY"), Also("setOneTimeLog"), Ok, Dispose>>, 0),
  T(23, Yes, {Full(0, 5), Has(4000284, 500), Has(4000285, 500)}, <<Ok, Dispose>>, 0),
  T(23, Yes, {Has(4000284, 500), Lacks(4000285, 500)}, <<Ok, Dispose>>, 0),
  T(23, Yes, {Lacks(4000284, 500)}, <<Ok, Dispose>>, 0),
  T(24, Yes, {Has(4000171, 600), Has(4000172, 600), Room(0, 5)}, <<Take(4000171, 600), Take(4000172, 600),
      Give(2340000, 2), Give(2049117, 2), Give(3010144, 1), Give(1032099, 1), Give(4251200, 1), Give(4310150,
      10), Earn(700000), Also("gainExp"), Also("gainDY"), Also("setOneTimeLog"), Ok, Dispose>>, 0),
  T(24, Yes, {Full(0, 5), Has(4000171, 600), Has(4000172, 600)}, <<Ok, Dispose>>, 0),
  T(24, Yes, {Has(4000171, 600), Lacks(4000172, 600)}, <<Ok, Dispose>>, 0),
  T(24, Yes, {Lacks(4000171, 600)}, <<Ok, Dispose>>, 0) }

\* lines 1219 to 1362 of 3004661.js
npc_3004661h == {
  T(3, Yes, {}, <<>>, 0),
  T(24, Yes, {Full(0, 5), Has(4000171, 600), Has(4000172, 600)}, <<Ok, Dispose>>, 0),
  T(24, Yes, {Has(4000171, 600), Lacks(4000172, 600)}, <<Ok, Dispose>>, 0),
  T(24, Yes, {Lacks(4000171, 600)}, <<Ok, Dispose>>, 0),
  T(25, Yes, {Has(4000160, 600), Has(4000161, 600), Room(0, 5)}, <<Take(4000160, 600), Take(4000161, 600),
      Give(2340000, 2), Give(2049117, 2), Give(3010448, 1), Give(1072872, 1), Give(4251200, 1), Give(4000038,
      5), Earn(750000), Also("gainExp"), Also("gainDY"), Also("setOneTimeLog"), Ok, Dispose>>, 0),
  T(25, Yes, {Full(0, 5), Has(4000160, 600), Has(4000161, 600)}, <<Ok, Dispose>>, 0),
  T(25, Yes, {Has(4000160, 600), Lacks(4000161, 600)}, <<Ok, Dispose>>, 0),
  T(25, Yes, {Lacks(4000160, 600)}, <<Ok, Dispose>>, 0),
  T(26, Yes, {Has(4000118, 700), Has(4000119, 700), Room(0, 5)}, <<Take(4000118, 700), Take(4000119, 700),
      Give(2340000, 2), Give(2049117, 2), Give(3010449, 1), Give(1132086, 1), Give(4251201, 1), Give(4000038,
      5), Earn(800000), Also("gainExp"), Also("gainDY"), Also("setOneTimeLog"), Ok, Dispose>>, 0),
  T(26, Yes, {Full(0, 5), Has(4000118, 700), Has(4000119, 700)}, <<Ok, Dispose>>, 0),
  T(26, Yes, {Has(4000118, 700), Lacks(4000119, 700)}, <<Ok, Dispose>>, 0),
  T(26, Yes, {Lacks(4000118, 700)}, <<Ok, Dispose>>, 0),
  T(27, Yes, {Has(4000235, 50), Has(4000243, 50), Has(4000460, 50), Has(4000461, 50), Has(4000462, 50),
      Has(4001083, 50), Has(4001084, 50), Has(4001085, 50), Room(0, 8)}, <<Take(4000235, 50), Take(4000243,
      50), Take(4000460, 50), Take(4000461, 50), Take(4001083, 50), Take(4001084, 50), Take(4001085, 50),
      Take(4000462, 50), Give(2340000, 5), Give(2049117, 5), Give(3010938, 1), Give(1142788, 1),
      Give(4251202, 1), Give(4000038, 10), Give(4310150, 20), Give(4000463, 50), Earn(5000000),
      Also("gainExp"), Also("gainDY"), Also("setOneTimeLog"), Ok, Dispose>>, 0),
  T(27, Yes, {Full(0, 8), Has(4000235, 50), Has(4000243, 50), Has(4000460, 50), Has(4000461, 50),
      Has(4000462, 50), Has(4001083, 50), Has(4001084, 50), Has(4001085, 50)}, <<Ok, Dispose>>, 0),
  T(27, Yes, {Has(4000235, 50), Has(4000243, 50), Has(4000460, 50), Has(4000461, 50), Has(4000462, 50),
      Has(4001083, 50), Has(4001084, 50), Lacks(4001085, 50)}, <<Ok, Dispose>>, 0),
  T(27, Yes, {Has(4000235, 50), Has(4000243, 50), Has(4000460, 50), Has(4000461, 50), Has(4000462, 50),
      Has(4001083, 50), Lacks(4001084, 50)}, <<Ok, Dispose>>, 0),
  T(27, Yes, {Has(4000235, 50), Has(4000243, 50), Has(4000460, 50), Has(4000461, 50), Has(4000462, 50),
      Lacks(4001083, 50)}, <<Ok, Dispose>>, 0),
  T(27, Yes, {Has(4000235, 50), Has(4000243, 50), Has(4000460, 50), Has(4000461, 50), Lacks(4000462, 50)},
      <<Ok, Dispose>>, 0),
  T(27, Yes, {Has(4000235, 50), Has(4000243, 50), Has(4000460, 50), Lacks(4000461, 50)}, <<Ok, Dispose>>, 0),
  T(27, Yes, {Has(4000235, 50), Has(4000243, 50), Lacks(4000460, 50)}, <<Ok, Dispose>>, 0),
  T(27, Yes, {Has(4000235, 50), Lacks(4000243, 50)}, <<Ok, Dispose>>, 0),
  T(27, Yes, {Lacks(4000235, 50)}, <<Ok, Dispose>>, 0) }

npc_3004852 == {
  T(0, Start, {}, <<Menu>>, 1),
  T(1, Yes, {}, <<Dispose, OpenNpc>>, 0) }

npc_3004974 == {
  T(0, Start, {}, <<Dispose, OpenNpc>>, 0),
  T(0, Start, {}, <<Dispose>>, 0),
  T(0, Start, {}, <<Menu>>, 1),
  T(1, Yes, {}, <<Dispose, OpenNpc>>, 0) }

\* lines 7 to 163 of 3004974_722.js
npc_3004974_722a == {
  T(0, Start, {}, <<Menu>>, 1),
  T(1, Yes, {Has(4001230, 10), Room(0, 2)}, <<Take(4001230, 10), Give(4310150, 1), Ok, Dispose>>, 0),
  T(1, Yes, {Lacks(4001230, 10), Room(0, 2)}, <<Ok, Dispose>>, 0),
  T(1, Yes, {Full(0, 2)}, <<Ok, Dispose>>, 0),
  T(1, Yes, {Lacks(4001228, 8), Room(0, 2)}, <<Ok, Dispose>>, 0),
  T(1, Yes, {Lacks(4001227, 6), Room(0, 2)}, <<Ok, Dispose>>, 0),
  T(1, Yes, {Lacks(4001226, 5), Room(0, 2)}, <<Ok, Dispose>>, 0),
  T(1, Yes, {Lacks(4001229, 3), Room(0, 2)}, <<Ok, Dispose>>, 0),
  T(1, Yes, {Rich(10000)}, <<Pay(10000), Also("warp"), Dispose>>, 0),
  T(1, Yes, {Poor(10000)}, <<Ok, Dispose>>, 0),
  T(1, Yes, {Rich(20000)}, <<Pay(20000), Also("warp"), Dispose>>, 0),
  T(1, Yes, {Poor(20000)}, <<Ok, Dispose>>, 0),
  T(1, Yes, {Rich(30000)}, <<Pay(30000), Also("warp"), Dispose>>, 0),
  T(1, Yes, {Poor(30000)}, <<Ok, Dispose>>, 0) }

\* lines 164 to 327 of 3004974_722.js
npc_3004974_722b == {
  T(1, Yes, {Lacks(4001230, 10), Room(0, 2)}, <<Ok, Dispose>>, 0),
  T(1, Yes, {Full(0, 2)}, <<Ok, Dispose>>, 0),
  T(1, Yes, {Has(4001228, 8), Room(0, 2)}, <<Take(4001228, 8), Give(4310150, 1), Ok, Dispose>>, 0),
  T(1, Yes, {Lacks(4001228, 8), Room(0, 2)}, <<Ok, Dispose>>, 0),
  T(1, Yes, {Has(4001227, 6), Room(0, 2)}, <<Take(4001227, 6), Give(4310150, 1), Ok, Dispose>>, 0),
  T(1, Yes, {Lacks(4001227, 6), Room(0, 2)}, <<Ok, Dispose>>, 0),
  T(1, Yes, {Has(4001226, 5), Room(0, 2)}, <<Take(4001226, 5), Give(4310150, 1), Ok, Dispose>>, 0),
  T(1, Yes, {Lacks(4001226, 5), Room(0, 2)}, <<Ok, Dispose>>, 0),
  T(1, Yes, {Has(4001229, 3), Room(0, 2)}, <<Take(4001229, 3), Give(4310150, 1), Ok, Dispose>>, 0),
  T(1, Yes, {Lacks(4001229, 3), Room(0, 2)}, <<Ok, Dispose>>, 0),
  T(1, Yes, {Rich(10000)}, <<Pay(10000), Also("warp"), Dispose>>, 0),
  T(1, Yes, {Poor(10000)}, <<Ok, Dispose>>, 0),
  T(1, Yes, {Poor(20000)}, <<Ok, Dispose>>, 0),
  T(1, Yes, {Poor(30000)}, <<Ok, Dispose>>, 0) }

\* lines 2 to 129 of 3004975.js
npc_3004975a == {
  T(0, Start, {}, <<Menu>>, 1),
  T(0, Start, {}, <<Menu>>, 2),
  T(0, Start, {}, <<Also("executeUpdate"), Menu>>, 1),
  T(0, Start, {}, <<Also("executeUpdate"), Menu>>, 2),
  T(1, Yes, {}, <<Ok, Dispose>>, 0),
  T(1, Yes, {}, <<Number>>, 4),
  T(2, Yes, {}, <<Ok, Dispose>>, 0),
  T(2, Yes, {}, <<Number>>, 5),
  T(3, No, {}, <<Dispose>>, 0),
  T(4, Yes, {}, <<Ok, Dispose>>, 0),
  T(4, No, {}, <<Dispose>>, 0),
  T(5, Yes, {}, <<Ok, Dispose>>, 0),
  T(5, No, {}, <<Dispose>>, 0),
  T(6, No, {}, <<Dispose>>, 0),
  T(7, No, {}, <<Dispose>>, 0) }

\* lines 130 to 262 of 3004975.js
npc_3004975b == {
  T(3, Yes, {}, <<Also("executeUpdate"), Also("gainNX"), Ok, Dispose>>, 0),
  T(3, Yes, {}, <<Ok, Dispose>>, 0),
  T(3, Yes, {}, <<Also("executeUpdate"), Ok, Dispose>>, 0),
  T(4, Yes, {}, <<YesNo>>, 6),
  T(5, Yes, {}, <<Ok, Dispose>>, 0),
  T(5, Yes, {Rich(8000000)}, <<YesNo>>, 7),
  T(6, Yes, {}, <<Also("executeUpdate"), Also("setOneTimeLog"), Ok, Dispose>>, 0),
  T(7, Yes, {}, <<Pay(8000000), Also("executeUpdate"), Also("setOneTimeLog"), Ok, Dispose>>, 0) }

\* lines 263 to 403 of 3004975.js
npc_3004975c == {
  T(0, Start, {}, <<Also("executeUpdate"), Menu>>, 1),
  T(0, Start, {}, <<Also("executeUpdate"), Menu>>, 2),
  T(1, Yes, {}, <<Number>>, 3),
  T(1, Yes, {}, <<Also("executeUpdate"), Number>>, 3),
  T(2, Yes, {}, <<Number>>, 3),
  T(2, Yes, {}, <<Also("executeUpdate"), Number>>, 3),
  T(3, Yes, {}, <<Also("executeUpdate"), Also("gainNX"), Ok, Dispose>>, 0),
  T(3, Yes, {}, <<Also("executeUpdate"), Ok, Dispose>>, 0),
  T(6, Yes, {}, <<Also("executeUpdate"), Also("setOneTimeLog"), Ok, Dispose>>, 0) }

npc_3004985 == {
  T(0, Start, {}, <<Menu>>, 1),
  T(1, Yes, {}, <<Dispose, OpenNpc>>, 0) }

npc_3005061 == {
  T(0, Start, {}, <<Menu>>, 1),
  T(0, Start, {}, <<Say>>, 2),
  T(1, Yes, {Has(2614000, 1)}, <<Number>>, 3),
  T(1, Yes, {Lacks(2614000, 1)}, <<Say>>, 4),
  T(1, Yes, {}, <<Dispose, OpenNpc>>, 0),
  T(2, Yes, {}, <<>>, 0),
  T(3, Yes, {}, <<Say, Dispose>>, 0),
  T(3, Yes, {}, <<Take(2614000, Some), Also("gainPGSXDJ"), Ok, Also("saveToDB"), Dispose>>, 0),
  T(3, No, {}, <<Ok, Dispose>>, 0),
  T(4, Yes, {}, <<Menu>>, 1),
  T(4, Yes, {}, <<Say>>, 2) }

NpcScripts30Table == [
  npc_3001953 |-> npc_3001953, npc_3003302 |-> npc_3003302a \cup npc_3003302b,
  npc_3003302_2 |-> npc_3003302_2a \cup npc_3003302_2b \cup npc_3003302_2c,
  npc_3003302_3 |-> npc_3003302_3a \cup npc_3003302_3b, npc_3003302_4 |-> npc_3003302_4a \cup npc_3003302_4b,
  npc_3003302_5 |-> npc_3003302_5a \cup npc_3003302_5b, npc_3003302_6 |-> npc_3003302_6,
  npc_3003323 |-> npc_3003323, npc_3003324_2 |-> npc_3003324_2, npc_3003324_5 |-> npc_3003324_5,
  npc_3003324_822 |-> npc_3003324_822, npc_3003331 |-> npc_3003331,
  npc_3003332_100 |-> npc_3003332_100a \cup npc_3003332_100b,
  npc_3003332_144 |-> npc_3003332_144a \cup npc_3003332_144b, npc_3003382 |-> npc_3003382,
  npc_3003383 |-> npc_3003383, npc_3003385 |-> npc_3003385, npc_3003385_70 |-> npc_3003385_70,
  npc_3003385_71 |-> npc_3003385_71a \cup npc_3003385_71b,
  npc_3003385_1893 |-> npc_3003385_1893a \cup npc_3003385_1893b, npc_3003724 |-> npc_3003724,
  npc_3004661 |-> npc_3004661a \cup npc_3004661b \cup npc_3004661c \cup npc_3004661d \cup npc_3004661e \cup npc_3004661f \cup npc_3004661g \cup npc_3004661h,
  npc_3004852 |-> npc_3004852, npc_3004974 |-> npc_3004974,
  npc_3004974_722 |-> npc_3004974_722a \cup npc_3004974_722b,
  npc_3004975 |-> npc_3004975a \cup npc_3004975b \cup npc_3004975c, npc_3004985 |-> npc_3004985,
  npc_3005061 |-> npc_3005061 ]
================================================================================
