----------------------------- MODULE NpcScripts90 ------------------------------
(* Tables of the scripts of NPCs 90xxxxx to 92xxxxx. *)
EXTENDS ScriptTables

npc_9000001 == {
  T(0, Start, {}, <<Say>>, 1),
  T(1, Yes, {}, <<Ok, Dispose, NextPrev>>, 0),
  T(1, Yes, {}, <<NextPrev>>, 2),
  T(2, Yes, {}, <<Ok, Dispose, Menu>>, 0),
  T(2, Yes, {}, <<Menu>>, 3),
  T(2, No, {}, <<Ok, Dispose>>, 0),
  T(2, No, {}, <<>>, 0),
  T(3, Yes, {}, <<Ok, Dispose, Say, Dispose>>, 0),
  T(3, Yes, {}, <<Say, Dispose>>, 0),
  T(3, Yes, {}, <<Ok, Dispose, Menu>>, 0),
  T(3, Yes, {}, <<Menu>>, 4),
  T(3, Yes, {Has(4031017, 1), Room(0, 1)}, <<Ok, Dispose, TakeAll(4031017), Also("saveReturnLocation"),
      Also("setChalkboard"), Also("warp"), Dispose>>, 0),
  T(3, Yes, {Has(4031017, 1), Room(0, 1)}, <<Ok, Dispose, TakeAll(4031017), Ok, Dispose>>, 0),
  T(3, Yes, {Lacks(4031017, 1), Room(0, 1)}, <<Ok, Dispose, Also("saveReturnLocation"),
      Also("setChalkboard"), Also("warp"), Dispose>>, 0),
  T(3, Yes, {Lacks(4031017, 1), Room(0, 1)}, <<Ok, Dispose, Ok, Dispose>>, 0),
  T(3, Yes, {Has(4031017, 1), Room(0, 1)}, <<TakeAll(4031017), Also("saveReturnLocation"),
      Also("setChalkboard"), Also("warp"), Dispose>>, 0),
  T(3, Yes, {Has(4031017, 1), Room(0, 1)}, <<TakeAll(4031017), Ok, Dispose>>, 0),
  T(3, Yes, {Lacks(4031017, 1), Room(0, 1)}, <<Also("saveReturnLocation"), Also("setChalkboard"),
      Also("warp"), Dispose>>, 0),
  T(3, Yes, {Lacks(4031017, 1), Room(0, 1)}, <<Ok, Dispose>>, 0),
  T(4, Yes, {}, <<Ok, Dispose, Say, Dispose>>, 0),
  T(4, Yes, {}, <<Say, Dispose>>, 0) }

\* lines 6 to 116 of 9000018.js
npc_9000018a == {
  T(0, Start, {}, <<Menu>>, 1),
  T(1, Yes, {Has(5220007, 1)}, <<Give(1302208, 1), Take(5220007, 1), Ok, Dispose>>, 0),
  T(1, Yes, {}, <<Ok, Dispose>>, 0),
  T(1, Yes, {Has(5220007, 1)}, <<Give(1332025, 1), Take(5220007, 1), Ok, Dispose>>, 0) }

\* lines 117 to 253 of 9000018.js
npc_9000018b == {
  T(1, Yes, {}, <<Ok, Dispose>>, 0),
  T(1, Yes, {Has(5220007, 1)}, <<Give(1382012, 1), Take(5220007, 1), Ok, Dispose>>, 0),
  T(1, Yes, {Has(5220007, 1)}, <<Give(1452022, 1), Take(5220007, 1), Ok, Dispose>>, 0),
  T(1, Yes, {Has(5220007, 1)}, <<Give(1462019, 1), Take(5220007, 1), Ok, Dispose>>, 0),
  T(1, Yes, {Has(5220007, 1)}, <<Give(1472032, 1), Take(5220007, 1), Ok, Dispose>>, 0),
  T(1, Yes, {Has(5220007, 1)}, <<Give(1482041, 1), Take(5220007, 1), Ok, Dispose>>, 0),
  T(1, Yes, {Has(5220007, 1)}, <<Give(1492042, 1), Take(5220007, 1), Ok, Dispose>>, 0),
  T(1, Yes, {Has(5220007, 1)}, <<Give(1432012, 1), Take(5220007, 1), Ok, Dispose>>, 0),
  T(1, Yes, {Has(5220007, 1)}, <<Give(1442024, 1), Take(5220007, 1), Ok, Dispose>>, 0) }

npc_9000021 == {
  T(0, Start, {}, <<Fail>>, 0) }

\* lines 7 to 158 of 9000038.js
npc_9000038a == {
  T(0, Start, {}, <<Menu>>, 1),
  T(1, Yes, {Has(4310071, 300), Rich(10000000), Room(1, 1)}, <<Pay(10000000), Take(4310071, 300),
      Give(1032205, 1), Dispose>>, 0),
  T(1, Yes, {Lacks(4310071, 300), Rich(10000000), Room(1, 1)}, <<Ok, Dispose>>, 0),
  T(1, Yes, {Poor(10000000), Room(1, 1)}, <<Ok, Dispose>>, 0),
  T(1, Yes, {Full(1, 1)}, <<Ok, Dispose>>, 0),
  T(1, Yes, {Has(1032205, 1), Has(4310071, 600), Rich(20000000), Room(1, 1)}, <<Pay(20000000), Take(4310071,
      600), Take(1032205, 1), Give(1032206, 1), Dispose>>, 0),
  T(1, Yes, {Has(1032205, 1), Lacks(4310071, 600), Rich(20000000), Room(1, 1)}, <<Ok, Dispose>>, 0),
  T(1, Yes, {Lacks(1032205, 1), Rich(20000000), Room(1, 1)}, <<Ok, Dispose>>, 0),
  T(1, Yes, {Poor(20000000), Room(1, 1)}, <<Ok, Dispose>>, 0),
  T(1, Yes, {Has(1032206, 1), Has(4310071, 1000), Rich(40000000), Room(1, 1)}, <<Pay(40000000), Take(4310071,
      1000), Take(1032206, 1), Give(1032207, 1), Dispose>>, 0),
  T(1, Yes, {Has(1032206, 1), Lacks(4310071, 1000), Rich(40000000), Room(1, 1)}, <<Ok, Dispose>>, 0),
  T(1, Yes, {Lacks(1032206, 1), Rich(40000000), Room(1, 1)}, <<Ok, Dispose>>, 0),
  T(1, Yes, {Poor(40000000), Room(1, 1)}, <<Ok, Dispose>>, 0),
  T(1, Yes, {Has(1032207, 1), Lacks(4310071, 2000), Rich(80000000), Room(1, 1)}, <<Ok, Dispose>>, 0),
  T(1, Yes, {Lacks(1032207, 1), Rich(80000000), Room(1, 1)}, <<Ok, Dispose>>, 0),
  T(1, Yes, {Poor(80000000), Room(1, 1)}, <<Ok, Dispose>>, 0),
  T(1, Yes, {Has(1032208, 1), Lacks(4310071, 5000), Rich(200000000), Room(1, 1)}, <<Ok, Dispose>>, 0),
  T(1, Yes, {Lacks(1032208, 1), Rich(200000000), Room(1, 1)}, <<Ok, Dispose>>, 0),
  T(1, Yes, {Poor(200000000), Room(1, 1)}, <<Ok, Dispose>>, 0),
  T(1, Yes, {Has(1032209, 1), Lacks(4310071, 9999), Rich(500000000), Room(1, 1)}, <<Ok, Dispose>>, 0),
  T(1, Yes, {Lacks(1032209, 1), Rich(500000000), Room(1, 1)}, <<Ok, Dispose>>, 0),
  T(1, Yes, {Poor(500000000), Room(1, 1)}, <<Ok, Dispose>>, 0) }

\* lines 159 to 369 of 9000038.js
npc_9000038b == {
  T(1, Yes, {Lacks(4310071, 300), Rich(10000000), Room(1, 1)}, <<Ok, Dispose>>, 0),
  T(1, Yes, {Poor(10000000), Room(1, 1)}, <<Ok, Dispose>>, 0),
  T(1, Yes, {Full(1, 1)}, <<Ok, Dispose>>, 0),
  T(1, Yes, {Has(1032205, 1), Lacks(4310071, 600), Rich(20000000), Room(1, 1)}, <<Ok, Dispose>>, 0),
  T(1, Yes, {Lacks(1032205, 1), Rich(20000000), Room(1, 1)}, <<Ok, Dispose>>, 0),
  T(1, Yes, {Poor(20000000), Room(1, 1)}, <<Ok, Dispose>>, 0),
  T(1, Yes, {Has(1032206, 1), Lacks(4310071, 1000), Rich(40000000), Room(1, 1)}, <<Ok, Dispose>>, 0),
  T(1, Yes, {Lacks(1032206, 1), Rich(40000000), Room(1, 1)}, <<Ok, Dispose>>, 0),
  T(1, Yes, {Poor(40000000), Room(1, 1)}, <<Ok, Dispose>>, 0),
  T(1, Yes, {Has(1032207, 1), Has(4310071, 2000), Rich(80000000), Room(1, 1)}, <<Pay(80000000), Take(4310071,
      2000), Take(1032207, 1), Give(1032208, 1), Dispose>>, 0),
  T(1, Yes, {Has(1032207, 1), Lacks(4310071, 2000), Rich(80000000), Room(1, 1)}, <<Ok, Dispose>>, 0),
  T(1, Yes, {Lacks(1032207, 1), Rich(80000000), Room(1, 1)}, <<Ok, Dispose>>, 0),
  T(1, Yes, {Poor(80000000), Room(1, 1)}, <<Ok, Dispose>>, 0),
  T(1, Yes, {Has(1032208, 1), Has(4310071, 5000), Rich(200000000), Room(1, 1)}, <<Pay(200000000),
      Take(4310071, 5000), Take(1032208, 1), Give(1032209, 1), Dispose>>, 0),
  T(1, Yes, {Has(1032208, 1), Lacks(4310071, 5000), Rich(200000000), Room(1, 1)}, <<Ok, Dispose>>, 0),
  T(1, Yes, {Lacks(1032208, 1), Rich(200000000), Room(1, 1)}, <<Ok, Dispose>>, 0),
  T(1, Yes, {Poor(200000000), Room(1, 1)}, <<Ok, Dispose>>, 0),
  T(1, Yes, {Has(1032209, 1), Has(4310071, 9999), Rich(500000000), Room(1, 1)}, <<Pay(500000000),
      Take(4310071, 9999), Take(1032209, 1), Give(1032219, 1), Dispose>>, 0),
  T(1, Yes, {Has(1032209, 1), Lacks(4310071, 9999), Rich(500000000), Room(1, 1)}, <<Ok, Dispose>>, 0),
  T(1, Yes, {Lacks(1032209, 1), Rich(500000000), Room(1, 1)}, <<Ok, Dispose>>, 0),
  T(1, Yes, {Poor(500000000), Room(1, 1)}, <<Ok, Dispose>>, 0) }

npc_9000039 == {
  T(0, Start, {}, <<Menu>>, 1),
  T(1, Yes, {}, <<Say>>, 2),
  T(1, Yes, {}, <<Menu>>, 3),
  T(1, Yes, {}, <<Menu>>, 4),
  T(1, Yes, {}, <<YesNo>>, 5),
  T(1, Yes, {}, <<YesNo>>, 6),
  T(1, Yes, {Has(3993003, 1)}, <<Number>>, 7),
  T(1, Yes, {}, <<Ok, Dispose>>, 0),
  T(1, Yes, {}, <<Number>>, 8),
  T(2, Yes, {}, <<Menu>>, 1),
  T(3, Yes, {Room(1, 1)}, <<Give(1102041, 1), Also("setPoints"), Ok, Dispose>>, 0),
  T(3, Yes, {}, <<Ok, Dispose>>, 0),
  T(3, Yes, {Room(1, 1)}, <<Give(1082149, 1), Also("setPoints"), Ok, Dispose>>, 0),
  T(3, Yes, {Room(5, 2)}, <<Give(5220000, 150), Also("setPoints"), Ok, Dispose>>, 0),
  T(4, Yes, {Room(3, 1)}, <<Give(3010025, 1), Also("setPoints"), Ok, Dispose>>, 0),
  T(4, Yes, {}, <<Ok, Dispose>>, 0),
  T(4, Yes, {Room(3, 1)}, <<Give(3010045, 1), Also("setPoints"), Ok, Dispose>>, 0),
  T(4, Yes, {Room(3, 1)}, <<Give(3010054, 1), Also("setPoints"), Ok, Dispose>>, 0),
  T(4, Yes, {Room(3, 1)}, <<Give(3012002, 1), Also("setPoints"), Ok, Dispose>>, 0),
  T(4, Yes, {Room(3, 1)}, <<Give(3010014, 1), Also("setPoints"), Ok, Dispose>>, 0),
  T(4, Yes, {Room(3, 1)}, <<Give(3010068, 1), Also("setPoints"), Ok, Dispose>>, 0),
  T(4, Yes, {Room(3, 1)}, <<Give(3010022, 1), Also("setPoints"), Ok, Dispose>>, 0),
  T(4, Yes, {Room(3, 1)}, <<Give(3010023, 1), Also("setPoints"), Ok, Dispose>>, 0),
  T(4, Yes, {Room(3, 1)}, <<Give(3010041, 1), Also("setPoints"), Ok, Dispose>>, 0),
  T(5, Yes, {}, <<Ok, Dispose>>, 0),
  T(5, Yes, {}, <<Also("setPoints"), Also("addFame"), Fail>>, 0),
  T(5, No, {}, <<Dispose>>, 0),
  T(6, Yes, {}, <<Ok, Dispose>>, 0),
  T(6, Yes, {}, <<Also("setPoints"), Also("modifyCSPoints"), Ok, Dispose>>, 0),
  T(6, No, {}, <<Dispose>>, 0),
  T(7, Yes, {}, <<Ok, Dispose>>, 0),
  T(7, Yes, {}, <<Take(3993003, Some), Also("setPoints"), Ok, Dispose>>, 0),
  T(7, Both, {}, <<Dispose>>, 0),
  T(8, Yes, {}, <<Ok, Dispose>>, 0),
  T(8, Yes, {Room(3, 1)}, <<Give(3993003, Some), Also("setPoints"), Ok, Dispose>>, 0),
  T(8, Both, {}, <<Dispose>>, 0) }

npc_9000085 == {
  T(0, Start, {}, <<Fail>>, 0) }

npc_9001000 == {
  T(0, Start, {}, <<Menu>>, 1),
  T(0, Start, {}, <<Menu>>, 2),
  T(1, Yes, {}, <<Ok, Dispose>>, 0),
  T(1, Yes, {}, <<Also("startInstance"), Dispose>>, 0),
  T(1, Yes, {}, <<Also("registerPlayer"), Dispose>>, 0),
  T(2, Yes, {}, <<Ok, Dispose>>, 0),
  T(2, Yes, {}, <<Also("startInstance"), Dispose>>, 0),
  T(2, Yes, {}, <<Also("registerPlayer"), Dispose>>, 0),
  T(2, Yes, {Room(1, 1)}, <<Also("setCustomData"), Give(1492023, 1), Ok, Dispose>>, 0),
  T(2, Yes, {Room(1, 1)}, <<Also("setCustomData"), Give(1472068, 1), Ok, Dispose>>, 0),
  T(2, Yes, {Room(1, 1)}, <<Also("setCustomData"), Give(1462050, 1), Ok, Dispose>>, 0),
  T(2, Yes, {Room(1, 1)}, <<Also("setCustomData"), Give(1452057, 1), Ok, Dispose>>, 0),
  T(2, Yes, {Room(1, 1)}, <<Also("setCustomData"), Give(1432047, 1), Ok, Dispose>>, 0),
  T(2, Yes, {Room(1, 1)}, <<Also("setCustomData"), Give(1382057, 1), Ok, Dispose>>, 0),
  T(2, Yes, {Room(1, 1)}, <<Also("setCustomData"), Give(1372044, 1), Ok, Dispose>>, 0),
  T(2, Yes, {Room(1, 1)}, <<Also("setCustomData"), Give(1332074, 1), Ok, Dispose>>, 0),
  T(2, Yes, {Room(1, 1)}, <<Also("setCustomData"), Give(1332073, 1), Ok, Dispose>>, 0),
  T(2, Yes, {Room(1, 1)}, <<Also("setCustomData"), Give(1482023, 1), Ok, Dispose>>, 0),
  T(2, Yes, {Room(1, 1)}, <<Also("setCustomData"), Give(1442063, 1), Ok, Dispose>>, 0),
  T(2, Yes, {Room(1, 1)}, <<Also("setCustomData"), Give(1422037, 1), Ok, Dispose>>, 0),
  T(2, Yes, {Room(1, 1)}, <<Also("setCustomData"), Give(1412033, 1), Ok, Dispose>>, 0),
  T(2, Yes, {Room(1, 1)}, <<Also("setCustomData"), Give(1402046, 1), Ok, Dispose>>, 0),
  T(2, Yes, {Room(1, 1)}, <<Also("setCustomData"), Give(1322060, 1), Ok, Dispose>>, 0),
  T(2, Yes, {Room(1, 1)}, <<Also("setCustomData"), Give(2049100, 1), Ok, Dispose>>, 0),
  T(2, Yes, {Room(1, 1)}, <<Also("setCustomData"), Give(1302081, 1), Ok, Dispose>>, 0),
  T(2, Yes, {Room(2, 1)}, <<Also("setCustomData"), Give(2070018, 1), Ok, Dispose>>, 0),
  T(2, Yes, {Room(1, 1)}, <<Also("setCustomData"), Give(1122017, 1), Ok, Dispose>>, 0),
  T(2, Yes, {Room(2, 1)}, <<Also("setCustomData"), Give(2022459, 1), Ok, Dispose>>, 0),
  T(2, Yes, {Room(2, 1)}, <<Also("setCustomData"), Give(2022460, 1), Ok, Dispose>>, 0),
  T(2, Yes, {Room(2, 1)}, <<Also("setCustomData"), Give(2022461, 1), Ok, Dispose>>, 0),
  T(2, Yes, {Room(2, 1)}, <<Also("setCustomData"), Give(2022462, 1), Ok, Dispose>>, 0),
  T(2, Yes, {Room(2, 1)}, <<Also("setCustomData"), Give(2022463, 1), Ok, Dispose>>, 0),
  T(2, Yes, {Room(5, 1)}, <<Also("setCustomData"), Give(5490001, 1), Ok, Dispose>>, 0),
  T(2, Yes, {Room(5, 1)}, <<Also("setCustomData"), Give(5490000, 1), Ok, Dispose>>, 0),
  T(2, Yes, {Room(1, 1)}, <<Also("setCustomData"), Give(1342011, 1), Ok, Dispose>>, 0) }

\* lines 1 to 155 of 9001008.js
npc_9001008a == {
  T(0, Start, {}, <<Menu>>, 1),
  T(1, Yes, {}, <<Ok, Dispose>>, 0),
  T(1, Yes, {}, <<Say>>, 2),
  T(2, Yes, {}, <<Ok, Dispose, Ok, Dispose>>, 0),
  T(2, Yes, {}, <<Ok, Dispose, Also("setLocked"), Also("setUpgradeSlots"), Take(Some, Some), Give(Some,
      Some), Also("gainNX"), Ok, Dispose>>, 0),
  T(2, Yes, {}, <<Also("setLocked"), Also("setUpgradeSlots"), Take(Some, Some), Give(Some, Some),
      Also("gainNX"), Ok, Dispose>>, 0) }

\* lines 156 to 248 of 9001008.js
npc_9001008b == {
  T(2, Yes, {}, <<Ok, Dispose, Ok, Dispose>>, 0),
  T(2, Yes, {}, <<Ok, Dispose, Also("setLocked"), Also("setUpgradeSlots"), Take(Some, Some), Give(Some,
      Some), Also("gainNX"), Ok, Dispose>>, 0),
  T(2, Yes, {}, <<Ok, Dispose>>, 0),
  T(2, Yes, {}, <<Also("setLocked"), Also("setUpgradeSlots"), Take(Some, Some), Give(Some, Some),
      Also("gainNX"), Ok, Dispose>>, 0) }

npc_9001105 == {
  T(0, Start, {}, <<Menu>>, 1),
  T(1, Yes, {}, <<Ok, Dispose>>, 0),
  T(1, Yes, {Has(4031184, 200), Room(1, 9)}, <<Also("setAcLog"), Take(4031184, 200), Give(1102369, 1),
      Give(1002552, 1), Give(1052077, 1), Give(1072274, 1), Give(1082169, 1), Give(1702576, 1),
      Also("modifyCSPoints"), Ok, Dispose>>, 0),
  T(1, Yes, {Has(4000006, 100), Has(4000166, 100), Has(4000187, 100), Has(4000188, 100), Has(4000189, 200),
      Has(4000247, 100), Has(4000252, 100), Has(4000253, 100), Room(1, 4)}, <<Take(4000188, 100),
      Take(4000187, 100), Take(4000006, 100), Take(4000247, 100), Take(4000253, 100), Take(4000252, 100),
      Take(4000166, 100), Take(4000189, 200), Give(1142813, 1), Ok, Dispose>>, 0) }

npc_9010009 == {
  T(0, Start, {}, <<Ok, Dispose>>, 0),
  T(0, Start, {}, <<Menu>>, 1),
  T(1, Yes, {Has(4000002, 30), Has(4000017, 20), Room(4, 3)}, <<Also("setBossLog"), Take(4000002, 30),
      Take(4000017, 20), Give(4000313, 5), Also("gainExp"), Ok, Dispose>>, 0),
  T(1, Yes, {Has(4000002, 30), Lacks(4000017, 20), Room(4, 3)}, <<Ok, Dispose>>, 0),
  T(1, Yes, {Lacks(4000002, 30), Room(4, 3)}, <<Ok, Dispose>>, 0),
  T(1, Yes, {Full(4, 3)}, <<Ok, Dispose>>, 0),
  T(1, Yes, {}, <<YesNo>>, 2),
  T(2, Yes, {Rich(10000)}, <<Pay(10000), Also("warp"), Dispose>>, 0),
  T(2, Yes, {Poor(10000)}, <<Ok, Dispose>>, 0),
  T(2, No, {}, <<Dispose>>, 0) }

npc_9010009_3 == {
  T(0, Start, {}, <<Menu, Menu, Menu, Menu, Menu, Menu, Menu, Menu, Menu, Menu>>, 1),
  T(1, Yes, {}, <<Also("gainDY"), Give(5370001, 1), Dispose>>, 0),
  T(1, Yes, {}, <<Ok, Dispose>>, 0) }

\* lines 1 to 207 of 9010009_55.js
npc_9010009_55a == {
  T(0, Start, {}, <<Menu>>, 1),
  T(0, Start, {}, <<Menu>>, 2),
  T(0, Start, {}, <<Say>>, 3),
  T(0, Start, {}, <<Menu>>, 4),
  T(0, Start, {}, <<Menu>>, 5),
  T(0, Start, {}, <<Menu>>, 6),
  T(0, Start, {}, <<Menu>>, 7),
  T(0, Start, {}, <<Menu>>, 8),
  T(0, Start, {}, <<Menu>>, 9),
  T(0, Start, {}, <<Menu>>, 10),
  T(0, Start, {}, <<Menu>>, 11),
  T(0, Start, {}, <<Menu>>, 12),
  T(0, Start, {}, <<Menu>>, 13),
  T(0, Start, {}, <<Menu>>, 14),
  T(0, Start, {}, <<Menu>>, 15),
  T(0, Start, {}, <<Menu>>, 16),
  T(0, Start, {}, <<Menu>>, 17),
  T(0, Start, {}, <<Menu>>, 18),
  T(0, Start, {}, <<Menu>>, 19),
  T(0, Start, {}, <<Menu>>, 20),
  T(0, Start, {}, <<Menu>>, 21) }

\* lines 208 to 364 of 9010009_55.js
npc_9010009_55b == {
  T(1, Yes, {Has(4000002, 50), Has(4000017, 10)}, <<Take(4000002, 50), Take(4000017, 10), Also("gainExp"),
      Give(1442012, 1), Also("setOneTimeLog"), Ok, Dispose>>, 0),
  T(1, Yes, {Has(4000002, 50), Lacks(4000017, 10)}, <<Ok, Dispose>>, 0),
  T(1, Yes, {Lacks(4000002, 50)}, <<Ok, Dispose>>, 0),
  T(2, Yes, {Has(4000008, 50), Has(4000015, 50)}, <<Take(4000015, 50), Take(4000008, 50), Earn(200000),
      Also("gainExp"), Also("setOneTimeLog"), Ok, Dispose>>, 0),
  T(2, Yes, {Has(4000015, 50), Lacks(4000008, 50)}, <<Ok, Dispose>>, 0),
  T(2, Yes, {Lacks(4000015, 50)}, <<Ok, Dispose>>, 0),
  T(4, Yes, {Has(4250602, 5)}, <<Take(4250602, 5), Give(1142107, 1), Also("setOneTimeLog"), Ok, Dispose>>, 0),
  T(4, Yes, {Lacks(4250602, 5)}, <<Ok, Dispose>>, 0),
  T(5, Yes, {Has(4000106, 50), Has(4000107, 20)}, <<Take(4000106, 50), Take(4000107, 20), Give(1032243, 1),
      Give(2000006, 200), Also("gainExp"), Also("setOneTimeLog"), Ok, Dispose>>, 0),
  T(5, Yes, {Has(4000106, 50), Lacks(4000107, 20)}, <<Ok, Dispose>>, 0),
  T(5, Yes, {Lacks(4000106, 50)}, <<Ok, Dispose>>, 0),
  T(6, Yes, {Has(4000169, 50), Has(4000170, 50)}, <<Give(1113165, 1), Also("gainExp"), Also("setOneTimeLog"),
      Ok, Dispose>>, 0),
  T(6, Yes, {Has(4000170, 50), Lacks(4000169, 50)}, <<Ok, Dispose>>, 0),
  T(6, Yes, {Lacks(4000170, 50)}, <<Ok, Dispose>>, 0),
  T(7, Yes, {Has(4000276, 100), Has(4000277, 50)}, <<Take(4000276, 100), Take(4000277, 50), Give(1012101, 1),
      Also("gainExp"), Also("setOneTimeLog"), Ok, Dispose>>, 0),
  T(7, Yes, {Has(4000276, 100), Lacks(4000277, 50)}, <<Ok, Dispose>>, 0),
  T(7, Yes, {Lacks(4000276, 100)}, <<Ok, Dispose>>, 0),
  T(8, Yes, {Has(4000115, 50)}, <<Take(4000115, 50), Give(1032243, 1), Also("gainExp"),
      Also("setOneTimeLog"), Ok, Dispose>>, 0),
  T(8, Yes, {Lacks(4000115, 50)}, <<Ok, Dispose>>, 0),
  T(9, Yes, {Has(4000086, 50), Has(4000088, 50)}, <<Also("gainDY"), Take(4000086, 50), Take(4000088, 1),
      Also("gainExp"), Also("setOneTimeLog"), Ok, Dispose>>, 0),
  T(9, Yes, {Has(4000088, 50), Lacks(4000086, 50)}, <<Ok, Dispose>>, 0),
  T(9, Yes, {Lacks(4000088, 50)}, <<Ok, Dispose>>, 0),
  T(10, Yes, {Has(4000025, 50), Has(4000177, 50)}, <<Take(4000177, 50), Take(4000025, 50), Give(1102082, 1),
      Also("gainExp"), Also("setOneTimeLog"), Ok, Dispose>>, 0),
  T(10, Yes, {Has(4000177, 50), Lacks(4000025, 50)}, <<Ok, Dispose>>, 0),
  T(10, Yes, {Lacks(4000177, 50)}, <<Ok, Dispose>>, 0),
  T(11, Yes, {Has(4000289, 100)}, <<Take(4000289, 100), Give(1113164, 1), Also("gainExp"),
      Also("setOneTimeLog"), Ok, Dispose>>, 0),
  T(11, Yes, {Lacks(4000289, 100)}, <<Ok, Dispose>>, 0),
  T(12, Yes, {Has(4170005, 5)}, <<Take(4170005, 5), Give(1132088, 1), Also("gainExp"), Also("setOneTimeLog"),
      Ok, Dispose, Ok, Dispose>>, 0) }

\* lines 365 to 537 of 9010009_55.js
npc_9010009_55c == {
  T(3, Yes, {}, <<>>, 0),
  T(12, Yes, {Lacks(4170005, 5)}, <<Ok, Dispose>>, 0),
  T(13, Yes, {Has(4000226, 60), Has(4000229, 60)}, <<Take(4000226, 60), Take(4000229, 60), Give(1072718, 1),
      Also("gainExp"), Also("setOneTimeLog"), Ok, Dispose>>, 0),
  T(13, Yes, {Has(4000226, 60), Lacks(4000229, 60)}, <<Ok, Dispose>>, 0),
  T(13, Yes, {Lacks(4000226, 60)}, <<Ok, Dispose>>, 0),
  T(14, Yes, {Has(4000238, 150)}, <<Take(4000238, 150), Also("gainExp"), Earn(10000000),
      Also("setOneTimeLog"), Ok, Dispose>>, 0),
  T(14, Yes, {Lacks(4000238, 150)}, <<Ok, Dispose>>, 0),
  T(15, Yes, {Has(4000182, 100)}, <<Take(4000182, 100), Give(1022129, 1), Also("gainExp"),
      Also("setOneTimeLog"), Ok, Dispose>>, 0),
  T(15, Yes, {Lacks(4000182, 100)}, <<Ok, Dispose>>, 0),
  T(16, Yes, {Has(4170005, 5), Has(4250602, 10)}, <<Take(4250602, 10), Take(4170005, 5), Also("gainNX"),
      Also("gainExp"), Also("setOneTimeLog"), Ok, Dispose>>, 0),
  T(16, Yes, {Has(4250602, 10), Lacks(4170005, 5)}, <<Ok, Dispose>>, 0),
  T(16, Yes, {Lacks(4250602, 10)}, <<Ok, Dispose>>, 0),
  T(17, Yes, {Has(4000180, 100), Has(4000181, 100)}, <<Take(4000180, 100), Take(4000181, 100), Give(1112676,
      1), Also("gainExp"), Also("setOneTimeLog"), Ok, Dispose>>, 0),
  T(17, Yes, {Has(4000180, 100), Lacks(4000181, 100)}, <<Ok, Dispose>>, 0),
  T(17, Yes, {Lacks(4000180, 100)}, <<Ok, Dispose>>, 0),
  T(18, Yes, {Has(4001266, 1)}, <<Take(4001266, 1), Also("teachSkill"), Give(1912011, 1), Give(1902015, 1),
      Give(1902016, 1), Give(1902017, 1), Give(1902018, 1), Also("gainExp"), Also("setOneTimeLog"), Ok,
      SafeDispose>>, 0),
  T(18, Yes, {Has(4001266, 1)}, <<Take(4001266, 1), Give(1912000, 1), Give(1902001, 1), Also("teachSkill"),
      Also("gainExp"), Also("setOneTimeLog"), Ok, Dispose>>, 0),
  T(18, Yes, {Lacks(4001266, 1), Room(4, 1)}, <<Give(4001266, 1), Ok, Dispose>>, 0),
  T(18, Yes, {Full(4, 1), Lacks(4001266, 1)}, <<Ok, Dispose>>, 0),
  T(19, Yes, {Has(4000235, 1), Has(4000243, 1), Has(4000460, 1), Has(4000461, 1), Has(4000462, 1)},
      <<Take(4000235, 1), Take(4000243, 1), Take(4000460, 1), Take(4000461, 1), Take(4000462, 1),
      Give(1052457, 1), Also("gainExp"), Also("setOneTimeLog"), Ok, Dispose>>, 0),
  T(19, Yes, {Has(4000235, 1), Has(4000243, 1), Has(4000460, 1), Has(4000461, 1), Lacks(4000462, 1)}, <<Ok,
      Dispose>>, 0),
  T(19, Yes, {Has(4000235, 1), Has(4000243, 1), Has(4000460, 1), Lacks(4000461, 1)}, <<Ok, Dispose>>, 0),
  T(19, Yes, {Has(4000235, 1), Has(4000243, 1), Lacks(4000460, 1)}, <<Ok, Dispose>>, 0),
  T(19, Yes, {Has(4000235, 1), Lacks(4000243, 1)}, <<Ok, Dispose>>, 0),
  T(19, Yes, {Lacks(4000235, 1)}, <<Ok, Dispose>>, 0),
  T(20, Yes, {Has(4001083, 1), Has(4001085, 1)}, <<Take(4001083, 1), Take(4001085, 1), Give(1112661, 1),
      Also("gainExp"), Also("setOneTimeLog"), Ok, Dispose>>, 0),
  T(20, Yes, {Has(4001083, 1), Lacks(4001085, 1)}, <<Ok, Dispose>>, 0),
  T(20, Yes, {Lacks(4001083, 1)}, <<Ok, Dispose>>, 0),
  T(21, Yes, {Has(4000245, 20), Has(4020009, 20)}, <<Take(4020009, 10), Take(4000245, 10), Give(1702224, 1),
      Also("gainNX"), Also("gainExp"), Also("setOneTimeLog"), Ok, Dispose>>, 0),
  T(21, Yes, {Has(4020009, 20), Lacks(4000245, 20)}, <<Ok, Dispose>>, 0),
  T(21, Yes, {Lacks(4020009, 20)}, <<Ok, Dispose>>, 0) }

\* lines 1 to 140 of 9020000.js
npc_9020000a == {
  T(0, Start, {}, <<Menu>>, 1),
  T(1, Yes, {}, <<Ok, Dispose>>, 0),
  T(1, Yes, {}, <<Also("startInstance"), Also("setPartyBosslog"), Dispose>>, 0),
  T(1, Yes, {}, <<Dispose, OpenNpc>>, 0),
  T(2, Yes, {}, <<Menu>>, 1) }

\* lines 141 to 263 of 9020000.js
npc_9020000b == {
  T(1, Yes, {}, <<Ok, Dispose>>, 0),
  T(1, Yes, {Room(1, 1)}, <<Also("setCustomData"), Also("saveToDB"), Also("setOneTimeLog"), Give(1112793, 1),
      Ok>>, 2),
  T(1, Yes, {Room(1, 1)}, <<Ok>>, 2) }

npc_9030000 == {
  T(0, Start, {}, <<Window(3), Dispose>>, 0) }

npc_9040000 == {
  T(0, Start, {}, <<Ok, Dispose>>, 0),
  T(0, Start, {}, <<Menu>>, 1),
  T(1, Yes, {}, <<Say, Dispose>>, 0),
  T(1, Yes, {}, <<Ok, Dispose>>, 0),
  T(1, Yes, {}, <<TakeAll(1032033), TakeAll(4001024), TakeAll(4001025), TakeAll(4001026), TakeAll(4001027),
      TakeAll(4001028), TakeAll(4001031), TakeAll(4001032), TakeAll(4001033), TakeAll(4001034),
      TakeAll(4001035), TakeAll(4001037), Also("startInstance"), Also("setProperty"), Dispose>>, 0),
  T(1, Yes, {}, <<TakeAll(1032033), TakeAll(4001024), TakeAll(4001025), TakeAll(4001026), TakeAll(4001027),
      TakeAll(4001028), TakeAll(4001031), TakeAll(4001032), TakeAll(4001033), TakeAll(4001034),
      TakeAll(4001035), TakeAll(4001037), Also("registerPlayer"), Dispose>>, 0) }

\* lines 1 to 142 of 9040004.js
npc_9040004a == {
  T(0, Start, {}, <<Also("saveToDB"), Menu>>, 1),
  T(0, Start, {}, <<Also("saveToDB"), Menu>>, 2),
  T(0, Start, {}, <<Also("saveToDB"), Menu>>, 3),
  T(1, Yes, {}, <<Also("saveToDB"), Fail>>, 0),
  T(1, Yes, {}, <<Also("saveToDB"), Dispose, OpenNpc>>, 0),
  T(2, Yes, {}, <<Also("saveToDB"), Dispose, OpenNpc>>, 0),
  T(3, Yes, {}, <<Also("saveToDB"), Dispose>>, 0),
  T(3, Yes, {}, <<Also("saveToDB"), Fail>>, 0),
  T(3, Yes, {}, <<Also("saveToDB"), Dispose, OpenNpc>>, 0) }

\* lines 143 to 474 of 9040004.js
npc_9040004b == {
  T(1, Yes, {}, <<Also("saveToDB"), Dispose, OpenNpc>>, 0),
  T(2, Yes, {}, <<Also("saveToDB"), Dispose, OpenNpc>>, 0) }

\* lines 475 to 558 of 9040004.js
npc_9040004c == {
  T(3, Yes, {}, <<Also("saveToDB"), Dispose>>, 0),
  T(3, Yes, {}, <<Also("saveToDB"), Dispose, OpenNpc>>, 0) }

npc_9040008 == {
  T(0, Start, {}, <<Menu>>, 1),
  T(1, Yes, {}, <<Fail>>, 0),
  T(1, Yes, {}, <<Ok, Dispose>>, 0) }

\* lines 1 to 276 of 9100001.js
npc_9100001a == {
  T(0, Start, {Has(5150037, 1)}, <<Menu>>, 1),
  T(0, Start, {Lacks(5150037, 1)}, <<Menu>>, 2),
  T(1, Yes, {Full(1, 5), Has(5150037, 1)}, <<Ok, Dispose>>, 0),
  T(1, Yes, {Lacks(5150037, 1)}, <<Ok, Dispose>>, 0),
  T(1, Yes, {Full(1, 4), Has(5150037, 1)}, <<Ok, Dispose>>, 0),
  T(2, Yes, {}, <<Menu>>, 3) }

\* lines 277 to 430 of 9100001.js
npc_9100001b == {
  T(1, Yes, {Has(5150037, 1), Room(1, 5)}, <<Give(1112118, 1), Give(1112228, 1), Ok, Dispose>>, 0),
  T(1, Yes, {Full(1, 5), Has(5150037, 1)}, <<Ok, Dispose>>, 0),
  T(1, Yes, {Lacks(5150037, 1)}, <<Ok, Dispose>>, 0),
  T(1, Yes, {Has(5150037, 1), Room(1, 5)}, <<Give(1112119, 1), Give(1112229, 1), Ok, Dispose>>, 0),
  T(1, Yes, {Has(5150037, 1), Room(1, 5)}, <<Give(1112120, 1), Give(1112230, 1), Ok, Dispose>>, 0),
  T(1, Yes, {Has(5150037, 1), Room(1, 5)}, <<Give(1112134, 1), Give(1112237, 1), Ok, Dispose>>, 0),
  T(1, Yes, {Has(5150037, 1), Room(1, 5)}, <<Give(1112135, 1), Give(1112238, 1), Ok, Dispose>>, 0),
  T(1, Yes, {Has(5150037, 1), Room(1, 5)}, <<Give(1112141, 1), Give(1112252, 1), Ok, Dispose>>, 0),
  T(1, Yes, {Has(5150037, 1), Room(1, 5)}, <<Give(1112142, 1), Give(1112253, 1), Ok, Dispose>>, 0),
  T(1, Yes, {Has(5150037, 1), Room(1, 5)}, <<Give(1112143, 1), Give(1112254, 1), Ok, Dispose>>, 0),
  T(1, Yes, {Full(1, 4), Has(5150037, 1)}, <<Ok, Dispose>>, 0) }

\* lines 431 to 598 of 9100001.js
npc_9100001c == {
  T(1, Yes, {Full(1, 5), Has(5150037, 1)}, <<Ok, Dispose>>, 0),
  T(1, Yes, {Lacks(5150037, 1)}, <<Ok, Dispose>>, 0),
  T(1, Yes, {Has(5150037, 1), Room(1, 5)}, <<Give(1112144, 1), Give(1112256, 1), Ok, Dispose>>, 0),
  T(1, Yes, {Has(5150037, 1), Room(1, 5)}, <<Give(1112145, 1), Give(1112257, 1), Ok, Dispose>>, 0),
  T(1, Yes, {Has(5150037, 1), Room(1, 5)}, <<Give(1112146, 1), Give(1112258, 1), Ok, Dispose>>, 0),
  T(1, Yes, {Has(5150037, 1), Room(1, 5)}, <<Give(1112148, 1), Give(1112259, 1), Ok, Dispose>>, 0),
  T(1, Yes, {Has(5150037, 1), Room(1, 5)}, <<Give(1112149, 1), Give(1112261, 1), Ok, Dispose>>, 0),
  T(1, Yes, {Has(5150037, 1), Room(1, 5)}, <<Give(1112150, 1), Give(1112262, 1), Ok, Dispose>>, 0),
  T(1, Yes, {Has(5150037, 1), Room(1, 5)}, <<Give(1112151, 1), Give(1112263, 1), Ok, Dispose>>, 0),
  T(1, Yes, {Has(5150037, 1), Room(1, 5)}, <<Give(1112154, 1), Give(1112266, 1), Ok, Dispose>>, 0),
  T(1, Yes, {Full(1, 4), Has(5150037, 1)}, <<Ok, Dispose>>, 0) }

\* lines 599 to 766 of 9100001.js
npc_9100001d == {
  T(1, Yes, {Full(1, 5), Has(5150037, 1)}, <<Ok, Dispose>>, 0),
  T(1, Yes, {Lacks(5150037, 1)}, <<Ok, Dispose>>, 0),
  T(1, Yes, {Has(5150037, 1), Room(1, 5)}, <<Give(1112155, 1), Give(1112267, 1), Ok, Dispose>>, 0),
  T(1, Yes, {Has(5150037, 1), Room(1, 5)}, <<Give(1112156, 1), Give(1112268, 1), Ok, Dispose>>, 0),
  T(1, Yes, {Has(5150037, 1), Room(1, 5)}, <<Give(1112157, 1), Give(1112269, 1), Ok, Dispose>>, 0),
  T(1, Yes, {Has(5150037, 1), Room(1, 5)}, <<Give(1112158, 1), Give(1112270, 1), Ok, Dispose>>, 0),
  T(1, Yes, {Has(5150037, 1), Room(1, 5)}, <<Give(1112160, 1), Give(1112272, 1), Ok, Dispose>>, 0),
  T(1, Yes, {Has(5150037, 1), Room(1, 5)}, <<Give(1112161, 1), Give(1112273, 1), Ok, Dispose>>, 0),
  T(1, Yes, {Has(5150037, 1), Room(1, 5)}, <<Give(1112162, 1), Give(1112274, 1), Ok, Dispose>>, 0),
  T(1, Yes, {Has(5150037, 1), Room(1, 5)}, <<Give(1112163, 1), Give(1112275, 1), Ok, Dispose>>, 0),
  T(1, Yes, {Full(1, 4), Has(5150037, 1)}, <<Ok, Dispose>>, 0) }

\* lines 767 to 934 of 9100001.js
npc_9100001e == {
  T(1, Yes, {Full(1, 5), Has(5150037, 1)}, <<Ok, Dispose>>, 0),
  T(1, Yes, {Lacks(5150037, 1)}, <<Ok, Dispose>>, 0),
  T(1, Yes, {Has(5150037, 1), Room(1, 5)}, <<Give(1112165, 1), Give(1112277, 1), Ok, Dispose>>, 0),
  T(1, Yes, {Has(5150037, 1), Room(1, 5)}, <<Give(1112170, 1), Give(1112282, 1), Ok, Dispose>>, 0),
  T(1, Yes, {Has(5150037, 1), Room(1, 5)}, <<Give(1112171, 1), Give(1112283, 1), Ok, Dispose>>, 0),
  T(1, Yes, {Has(5150037, 1), Room(1, 5)}, <<Give(1112172, 1), Give(1112284, 1), Ok, Dispose>>, 0),
  T(1, Yes, {Has(5150037, 1), Room(1, 5)}, <<Give(1112177, 1), Give(1112289, 1), Ok, Dispose>>, 0),
  T(1, Yes, {Has(5150037, 1), Room(1, 5)}, <<Give(1112178, 1), Give(1112290, 1), Ok, Dispose>>, 0),
  T(1, Yes, {Has(5150037, 1), Room(1, 5)}, <<Give(1112182, 1), Give(1112295, 1), Ok, Dispose>>, 0),
  T(1, Yes, {Full(1, 4), Has(5150037, 1)}, <<Ok, Dispose>>, 0) }

\* lines 935 to 1102 of 9100001.js
npc_9100001f == {
  T(1, Yes, {Full(1, 5), Has(5150037, 1)}, <<Ok, Dispose>>, 0),
  T(1, Yes, {Lacks(5150037, 1)}, <<Ok, Dispose>>, 0),
  T(1, Yes, {Has(5150037, 1), Room(1, 5)}, <<Give(1112184, 1), Give(1115030, 1), Ok, Dispose>>, 0),
  T(1, Yes, {Has(5150037, 1), Room(1, 5)}, <<Give(1112194, 1), Give(1115007, 1), Ok, Dispose>>, 0),
  T(1, Yes, {Has(5150037, 1), Room(1, 5)}, <<Give(1112195, 1), Give(1115008, 1), Ok, Dispose>>, 0),
  T(1, Yes, {Has(5150037, 1), Room(1, 5)}, <<Give(1112196, 1), Give(1115009, 1), Ok, Dispose>>, 0),
  T(1, Yes, {Has(5150037, 1), Room(1, 5)}, <<Give(1112197, 1), Give(1115010, 1), Ok, Dispose>>, 0),
  T(1, Yes, {Has(5150037, 1), Room(1, 5)}, <<Give(1112198, 1), Give(1115011, 1), Ok, Dispose>>, 0),
  T(1, Yes, {Has(5150037, 1), Room(1, 5)}, <<Give(1115103, 1), Give(1115016, 1), Ok, Dispose>>, 0),
  T(1, Yes, {Has(5150037, 1), Room(1, 5)}, <<Give(1115108, 1), Give(1115019, 1), Ok, Dispose>>, 0),
  T(1, Yes, {Full(1, 4), Has(5150037, 1)}, <<Ok, Dispose>>, 0) }

\* lines 1103 to 1266 of 9100001.js
npc_9100001g == {
  T(1, Yes, {Full(1, 5), Has(5150037, 1)}, <<Ok, Dispose>>, 0),
  T(1, Yes, {Lacks(5150037, 1)}, <<Ok, Dispose>>, 0),
  T(1, Yes, {Has(5150037, 1), Room(1, 5)}, <<Give(1115109, 1), Give(1115020, 1), Ok, Dispose>>, 0),
  T(1, Yes, {Has(5150037, 1), Room(1, 5)}, <<Give(1115110, 1), Give(1115021, 1), Ok, Dispose>>, 0),
  T(1, Yes, {Has(5150037, 1), Room(1, 5)}, <<Give(1115116, 1), Give(1115027, 1), Ok, Dispose>>, 0),
  T(1, Yes, {Has(5150037, 1), Room(1, 5)}, <<Give(1115104, 1), Give(1115017, 1), Ok, Dispose>>, 0),
  T(1, Yes, {Has(5150037, 1), Room(1, 4)}, <<Give(1112103, 1), Ok, Dispose>>, 0),
  T(1, Yes, {Full(1, 4), Has(5150037, 1)}, <<Ok, Dispose>>, 0),
  T(1, Yes, {Has(5150037, 1), Room(1, 4)}, <<Give(1112136, 1), Ok, Dispose>>, 0),
  T(1, Yes, {Has(5150037, 1), Room(1, 4)}, <<Give(1112168, 1), Ok, Dispose>>, 0),
  T(1, Yes, {Has(5150037, 1), Room(1, 4)}, <<Give(1112264, 1), Ok, Dispose>>, 0) }

\* lines 1267 to 1426 of 9100001.js
npc_9100001h == {
  T(1, Yes, {Full(1, 5), Has(5150037, 1)}, <<Ok, Dispose>>, 0),
  T(1, Yes, {Lacks(5150037, 1)}, <<Ok, Dispose>>, 0),
  T(1, Yes, {Full(1, 4), Has(5150037, 1)}, <<Ok, Dispose>>, 0),
  T(1, Yes, {Has(5150037, 1), Room(1, 4)}, <<Give(1112265, 1), Ok, Dispose>>, 0),
  T(1, Yes, {Has(5150037, 1), Room(1, 4)}, <<Give(1112271, 1), Ok, Dispose>>, 0),
  T(1, Yes, {Has(5150037, 1), Room(1, 4)}, <<Give(1112276, 1), Ok, Dispose>>, 0),
  T(1, Yes, {Has(5150037, 1), Room(1, 4)}, <<Give(1112279, 1), Ok, Dispose>>, 0),
  T(1, Yes, {Has(5150037, 1), Room(1, 4)}, <<Give(1112280, 1), Ok, Dispose>>, 0),
  T(1, Yes, {Has(5150037, 1), Room(1, 4)}, <<Give(1112281, 1), Ok, Dispose>>, 0),
  T(1, Yes, {Has(5150037, 1), Room(1, 4)}, <<Give(1112285, 1), Ok, Dispose>>, 0),
  T(1, Yes, {Has(5150037, 1), Room(1, 4)}, <<Give(1112294, 1), Ok, Dispose>>, 0) }

\* lines 1427 to 1586 of 9100001.js
npc_9100001i == {
  T(1, Yes, {Full(1, 5), Has(5150037, 1)}, <<Ok, Dispose>>, 0),
  T(1, Yes, {Lacks(5150037, 1)}, <<Ok, Dispose>>, 0),
  T(1, Yes, {Full(1, 4), Has(5150037, 1)}, <<Ok, Dispose>>, 0),
  T(1, Yes, {Has(5150037, 1), Room(1, 4)}, <<Give(1112291, 1), Ok, Dispose>>, 0),
  T(1, Yes, {Has(5150037, 1), Room(1, 4)}, <<Give(1112296, 1), Ok, Dispose>>, 0),
  T(1, Yes, {Has(5150037, 1), Room(1, 4)}, <<Give(1115004, 1), Ok, Dispose>>, 0),
  T(1, Yes, {Has(5150037, 1), Room(1, 4)}, <<Give(1115005, 1), Ok, Dispose>>, 0),
  T(1, Yes, {Has(5150037, 1), Room(1, 4)}, <<Give(1115006, 1), Ok, Dispose>>, 0),
  T(1, Yes, {Has(5150037, 1), Room(1, 4)}, <<Give(1115022, 1), Ok, Dispose>>, 0),
  T(1, Yes, {Has(5150037, 1), Room(1, 4)}, <<Give(1115023, 1), Ok, Dispose>>, 0),
  T(1, Yes, {Has(5150037, 1), Room(1, 4)}, <<Give(1112025, 1), Ok, Dispose>>, 0) }

\* lines 1587 to 1744 of 9100001.js
npc_9100001j == {
  T(1, Yes, {Full(1, 5), Has(5150037, 1)}, <<Ok, Dispose>>, 0),
  T(1, Yes, {Lacks(5150037, 1)}, <<Ok, Dispose>>, 0),
  T(1, Yes, {Full(1, 4), Has(5150037, 1)}, <<Ok, Dispose>>, 0),
  T(1, Yes, {Has(5150037, 1), Room(1, 4)}, <<Give(1115026, 1), Ok, Dispose>>, 0),
  T(1, Yes, {Has(5150037, 1), Room(1, 4)}, <<Give(1115029, 1), Ok, Dispose>>, 0),
  T(3, Yes, {Room(1, 5)}, <<Also("modifyCSPoints"), Give(1112118, 1), Give(1112228, 1), Ok, Dispose>>, 0),
  T(3, Yes, {}, <<Ok, Dispose>>, 0),
  T(3, Yes, {Room(1, 5)}, <<Also("modifyCSPoints"), Give(1112119, 1), Give(1112229, 1), Ok, Dispose>>, 0),
  T(3, Yes, {Room(1, 5)}, <<Also("modifyCSPoints"), Give(1112120, 1), Give(1112230, 1), Ok, Dispose>>, 0),
  T(3, Yes, {Room(1, 5)}, <<Also("modifyCSPoints"), Give(1112134, 1), Give(1112237, 1), Ok, Dispose>>, 0) }

\* lines 1745 to 1914 of 9100001.js
npc_9100001k == {
  T(3, Yes, {}, <<Ok, Dispose>>, 0),
  T(3, Yes, {Room(1, 5)}, <<Also("modifyCSPoints"), Give(1112135, 1), Give(1112238, 1), Ok, Dispose>>, 0),
  T(3, Yes, {Room(1, 5)}, <<Also("modifyCSPoints"), Give(1112141, 1), Give(1112252, 1), Ok, Dispose>>, 0),
  T(3, Yes, {Room(1, 5)}, <<Also("modifyCSPoints"), Give(1112142, 1), Give(1112253, 1), Ok, Dispose>>, 0),
  T(3, Yes, {Room(1, 5)}, <<Also("modifyCSPoints"), Give(1112143, 1), Give(1112254, 1), Ok, Dispose>>, 0),
  T(3, Yes, {Room(1, 5)}, <<Also("modifyCSPoints"), Give(1112144, 1), Give(1112256, 1), Ok, Dispose>>, 0),
  T(3, Yes, {Room(1, 5)}, <<Also("modifyCSPoints"), Give(1112145, 1), Give(1112257, 1), Ok, Dispose>>, 0) }

\* lines 1915 to 2082 of 9100001.js
npc_9100001l == {
  T(3, Yes, {}, <<Ok, Dispose>>, 0),
  T(3, Yes, {Room(1, 5)}, <<Also("modifyCSPoints"), Give(1112146, 1), Give(1112258, 1), Ok, Dispose>>, 0),
  T(3, Yes, {Room(1, 5)}, <<Also("modifyCSPoints"), Give(1112148, 1), Give(1112259, 1), Ok, Dispose>>, 0),
  T(3, Yes, {Room(1, 5)}, <<Also("modifyCSPoints"), Give(1112149, 1), Give(1112261, 1), Ok, Dispose>>, 0),
  T(3, Yes, {Room(1, 5)}, <<Also("modifyCSPoints"), Give(1112150, 1), Give(1112262, 1), Ok, Dispose>>, 0),
  T(3, Yes, {Room(1, 5)}, <<Also("modifyCSPoints"), Give(1112151, 1), Give(1112263, 1), Ok, Dispose>>, 0),
  T(3, Yes, {Room(1, 5)}, <<Also("modifyCSPoints"), Give(1112154, 1), Give(1112266, 1), Ok, Dispose>>, 0) }

\* lines 2083 to 2250 of 9100001.js
npc_9100001m == {
  T(3, Yes, {}, <<Ok, Dispose>>, 0),
  T(3, Yes, {Room(1, 5)}, <<Also("modifyCSPoints"), Give(1112155, 1), Give(1112267, 1), Ok, Dispose>>, 0),
  T(3, Yes, {Room(1, 5)}, <<Also("modifyCSPoints"), Give(1112156, 1), Give(1112268, 1), Ok, Dispose>>, 0),
  T(3, Yes, {Room(1, 5)}, <<Also("modifyCSPoints"), Give(1112157, 1), Give(1112269, 1), Ok, Dispose>>, 0),
  T(3, Yes, {Room(1, 5)}, <<Also("modifyCSPoints"), Give(1112158, 1), Give(1112270, 1), Ok, Dispose>>, 0),
  T(3, Yes, {Room(1, 5)}, <<Also("modifyCSPoints"), Give(1112160, 1), Give(1112272, 1), Ok, Dispose>>, 0),
  T(3, Yes, {Room(1, 5)}, <<Also("modifyCSPoints"), Give(1112161, 1), Give(1112273, 1), Ok, Dispose>>, 0) }

\* lines 2251 to 3472 of 9100001.js
npc_9100001n == {
  T(3, Yes, {}, <<Ok, Dispose>>, 0),
  T(3, Yes, {Room(1, 5)}, <<Also("modifyCSPoints"), Give(1112162, 1), Give(1112274, 1), Ok, Dispose>>, 0),
  T(3, Yes, {Room(1, 5)}, <<Also("modifyCSPoints"), Give(1112163, 1), Give(1112275, 1), Ok, Dispose>>, 0),
  T(3, Yes, {Room(1, 5)}, <<Also("modifyCSPoints"), Give(1112165, 1), Give(1112277, 1), Ok, Dispose>>, 0),
  T(3, Yes, {Room(1, 5)}, <<Also("modifyCSPoints"), Give(1112170, 1), Give(1112282, 1), Ok, Dispose>>, 0),
  T(3, Yes, {Room(1, 5)}, <<Also("modifyCSPoints"), Give(1112171, 1), Give(1112283, 1), Ok, Dispose>>, 0),
  T(3, Yes, {Room(1, 5)}, <<Also("modifyCSPoints"), Give(1112172, 1), Give(1112284, 1), Ok, Dispose>>, 0),
  T(3, Yes, {Room(1, 5)}, <<Also("modifyCSPoints"), Give(1112177, 1), Give(1112289, 1), Ok, Dispose>>, 0),
  T(3, Yes, {Room(1, 5)}, <<Also("modifyCSPoints"), Give(1112178, 1), Give(1112290, 1), Ok, Dispose>>, 0),
  T(3, Yes, {Room(1, 5)}, <<Also("modifyCSPoints"), Give(1112182, 1), Give(1112295, 1), Ok, Dispose>>, 0),
  T(3, Yes, {Room(1, 5)}, <<Also("modifyCSPoints"), Give(1112184, 1), Give(1115030, 1), Ok, Dispose>>, 0),
  T(3, Yes, {Room(1, 5)}, <<Also("modifyCSPoints"), Give(1112194, 1), Give(1115007, 1), Ok, Dispose>>, 0),
  T(3, Yes, {Room(1, 5)}, <<Also("modifyCSPoints"), Give(1112195, 1), Give(1115008, 1), Ok, Dispose>>, 0),
  T(3, Yes, {Room(1, 5)}, <<Also("modifyCSPoints"), Give(1112196, 1), Give(1115009, 1), Ok, Dispose>>, 0),
  T(3, Yes, {Room(1, 5)}, <<Also("modifyCSPoints"), Give(1112197, 1), Give(1115010, 1), Ok, Dispose>>, 0),
  T(3, Yes, {Room(1, 5)}, <<Also("modifyCSPoints"), Give(1112198, 1), Give(1115011, 1), Ok, Dispose>>, 0),
  T(3, Yes, {Room(1, 5)}, <<Also("modifyCSPoints"), Give(1115103, 1), Give(1115016, 1), Ok, Dispose>>, 0),
  T(3, Yes, {Room(1, 5)}, <<Also("modifyCSPoints"), Give(1115108, 1), Give(1115019, 1), Ok, Dispose>>, 0),
  T(3, Yes, {Room(1, 5)}, <<Also("modifyCSPoints"), Give(1115109, 1), Give(1115020, 1), Ok, Dispose>>, 0),
  T(3, Yes, {Room(1, 5)}, <<Also("modifyCSPoints"), Give(1115110, 1), Give(1115021, 1), Ok, Dispose>>, 0),
  T(3, Yes, {Room(1, 5)}, <<Also("modifyCSPoints"), Give(1115116, 1), Give(1115027, 1), Ok, Dispose>>, 0),
  T(3, Yes, {Room(1, 5)}, <<Also("modifyCSPoints"), Give(1115104, 1), Give(1115017, 1), Ok, Dispose>>, 0),
  T(3, Yes, {Room(1, 4)}, <<Also("modifyCSPoints"), Give(1112103, 1), Ok, Dispose>>, 0),
  T(3, Yes, {Room(1, 4)}, <<Also("modifyCSPoints"), Give(1112136, 1), Ok, Dispose>>, 0),
  T(3, Yes, {Room(1, 4)}, <<Also("modifyCSPoints"), Give(1112168, 1), Ok, Dispose>>, 0),
  T(3, Yes, {Room(1, 4)}, <<Also("modifyCSPoints"), Give(1112264, 1), Ok, Dispose>>, 0),
  T(3, Yes, {Room(1, 4)}, <<Also("modifyCSPoints"), Give(1112265, 1), Ok, Dispose>>, 0),
  T(3, Yes, {Room(1, 4)}, <<Also("modifyCSPoints"), Give(1112271, 1), Ok, Dispose>>, 0),
  T(3, Yes, {Room(1, 4)}, <<Also("modifyCSPoints"), Give(1112276, 1), Ok, Dispose>>, 0),
  T(3, Yes, {Room(1, 4)}, <<Also("modifyCSPoints"), Give(1112279, 1), Ok, Dispose>>, 0),
  T(3, Yes, {Room(1, 4)}, <<Also("modifyCSPoints"), Give(1112280, 1), Ok, Dispose>>, 0),
  T(3, Yes, {Room(1, 4)}, <<Also("modifyCSPoints"), Give(1112281, 1), Ok, Dispose>>, 0),
  T(3, Yes, {Room(1, 4)}, <<Also("modifyCSPoints"), Give(1112285, 1), Ok, Dispose>>, 0),
  T(3, Yes, {Room(1, 4)}, <<Also("modifyCSPoints"), Give(1112294, 1), Ok, Dispose>>, 0),
  T(3, Yes, {Room(1, 4)}, <<Also("modifyCSPoints"), Give(1112291, 1), Ok, Dispose>>, 0),
  T(3, Yes, {Room(1, 4)}, <<Also("modifyCSPoints"), Give(1112296, 1), Ok, Dispose>>, 0),
  T(3, Yes, {Room(1, 4)}, <<Also("modifyCSPoints"), Give(1115004, 1), Ok, Dispose>>, 0),
  T(3, Yes, {Room(1, 4)}, <<Also("modifyCSPoints"), Give(1115005, 1), Ok, Dispose>>, 0),
  T(3, Yes, {Room(1, 4)}, <<Also("modifyCSPoints"), Give(1115006, 1), Ok, Dispose>>, 0),
  T(3, Yes, {Room(1, 4)}, <<Also("modifyCSPoints"), Give(1115022, 1), Ok, Dispose>>, 0),
  T(3, Yes, {Room(1, 4)}, <<Also("modifyCSPoints"), Give(1115023, 1), Ok, Dispose>>, 0),
  T(3, Yes, {Room(1, 4)}, <<Also("modifyCSPoints"), Give(1112025, 1), Ok, Dispose>>, 0),
  T(3, Yes, {Room(1, 4)}, <<Also("modifyCSPoints"), Give(1115026, 1), Ok, Dispose>>, 0),
  T(3, Yes, {Room(1, 4)}, <<Also("modifyCSPoints"), Give(1115029, 1), Ok, Dispose>>, 0) }

npc_9100106 == {
  T(0, Start, {}, <<Menu>>, 1),
  T(1, Yes, {}, <<Ok, Dispose>>, 0),
  T(1, Yes, {}, <<Also("setBossLog"), Give(4001129, 1), Give(4001126, 100), Give(4000313, 30), Ok, Dispose>>,
      0) }

npc_9100200 == {
  T(0, Start, {}, <<Menu>>, 1),
  T(1, Yes, {}, <<Number>>, 2),
  T(1, Yes, {}, <<Ok, Dispose>>, 0),
  T(2, Yes, {}, <<Ok, Dispose>>, 0),
  T(2, Yes, {}, <<Pay(Some), Menu>>, 3),
  T(2, No, {}, <<Menu>>, 1),
  T(3, Yes, {}, <<Ok, Dispose>>, 0),
  T(3, Yes, {}, <<Menu>>, 4),
  T(3, Yes, {}, <<Ok, Earn(Some), Dispose>>, 0),
  T(4, Yes, {}, <<Ok, Dispose>>, 0),
  T(4, Yes, {}, <<Menu>>, 5),
  T(4, Yes, {}, <<Ok, Earn(Some), Dispose>>, 0),
  T(5, Yes, {}, <<Ok, Dispose>>, 0),
  T(5, Yes, {}, <<Ok, Earn(Some), Dispose>>, 0) }

npc_9100201 == {
  T(0, Start, {}, <<Menu>>, 1),
  T(1, Yes, {}, <<Number>>, 2),
  T(1, Yes, {}, <<Ok, Dispose>>, 0),
  T(2, Yes, {}, <<Ok, Dispose>>, 0),
  T(2, Yes, {}, <<Also("gainNX"), Menu>>, 3),
  T(2, No, {}, <<Menu>>, 1),
  T(3, Yes, {}, <<Ok, Dispose>>, 0),
  T(3, Yes, {}, <<Menu>>, 4),
  T(3, Yes, {}, <<Ok, Also("gainNX"), Dispose>>, 0),
  T(4, Yes, {}, <<Ok, Dispose>>, 0),
  T(4, Yes, {}, <<Menu>>, 5),
  T(4, Yes, {}, <<Ok, Also("gainNX"), Dispose>>, 0),
  T(5, Yes, {}, <<Ok, Dispose>>, 0),
  T(5, Yes, {}, <<Ok, Also("gainNX"), Dispose>>, 0) }

npc_9100202 == {
  T(0, Start, {}, <<Menu>>, 1),
  T(1, Yes, {}, <<Number>>, 2),
  T(1, Yes, {}, <<Ok, Dispose>>, 0),
  T(2, Yes, {}, <<Ok, Dispose>>, 0),
  T(2, Yes, {}, <<Menu, Also("gainBeans")>>, 3),
  T(2, No, {}, <<Menu>>, 1),
  T(3, Yes, {}, <<Ok, Dispose>>, 0),
  T(3, Yes, {}, <<Menu>>, 4),
  T(3, Yes, {}, <<Ok, Also("gainBeans"), Dispose>>, 0),
  T(4, Yes, {}, <<Ok, Dispose>>, 0),
  T(4, Yes, {}, <<Menu>>, 5),
  T(4, Yes, {}, <<Ok, Also("gainBeans"), Dispose>>, 0),
  T(5, Yes, {}, <<Ok, Dispose>>, 0),
  T(5, Yes, {}, <<Ok, Also("gainBeans"), Dispose>>, 0) }

npc_9100204 == {
  T(0, Start, {}, <<Accept>>, 1),
  T(1, Yes, {}, <<Menu>>, 2),
  T(1, No, {}, <<Dispose>>, 0),
  T(2, Yes, {Rich(1000000)}, <<Ok, Pay(1000000), Dispose>>, 0),
  T(2, Yes, {Rich(1000000)}, <<Ok, Earn(1000000), Dispose>>, 0),
  T(2, Yes, {Poor(1000000)}, <<Ok, Dispose>>, 0),
  T(2, Yes, {Rich(5000000)}, <<Ok, Pay(5000000), Dispose>>, 0),
  T(2, Yes, {Rich(5000000)}, <<Ok, Earn(5000000), Dispose>>, 0),
  T(2, Yes, {Poor(5000000)}, <<Ok, Dispose>>, 0),
  T(2, Yes, {Rich(45000)}, <<Ok, Pay(45000), Dispose>>, 0),
  T(2, Yes, {Rich(45000)}, <<Ok, Earn(45000), Dispose>>, 0),
  T(2, Yes, {Poor(45000)}, <<Ok, Dispose>>, 0),
  T(2, Yes, {Poor(71000000), Rich(75000)}, <<Ok, Dispose>>, 0),
  T(2, Yes, {Rich(75000)}, <<Ok, Earn(75000), Dispose>>, 0),
  T(2, Yes, {Rich(75000)}, <<Ok, Pay(75000), Dispose>>, 0),
  T(2, Yes, {Poor(75000)}, <<Ok, Dispose>>, 0),
  T(2, Yes, {Rich(11000000)}, <<Ok, Earn(11000000), Dispose>>, 0),
  T(2, Yes, {Rich(11000000)}, <<Ok, Pay(11000000), Dispose>>, 0),
  T(2, Yes, {Poor(11000000)}, <<Ok, Dispose>>, 0) }

npc_9103001 == {
  T(0, Start, {}, <<Menu>>, 1),
  T(1, Yes, {}, <<Ok, Dispose>>, 0),
  T(1, Yes, {}, <<Fail>>, 0) }

npc_9105004 == {
  T(0, Start, {}, <<Also("saveLocation"), Also("warp"), Dispose>>, 0),
  T(0, Start, {}, <<Menu>>, 1),
  T(0, Start, {}, <<Ok, Dispose>>, 0),
  T(0, Start, {}, <<Also("warp"), Give(Some, 1), Also("gainExp"), Dispose>>, 0),
  T(0, Start, {}, <<>>, 0),
  T(1, Yes, {}, <<Also("saveLocation"), Also("warp"), Dispose>>, 0),
  T(1, Yes, {}, <<Ok, Dispose>>, 0),
  T(1, Yes, {}, <<Also("warp"), Dispose>>, 0),
  T(1, Yes, {}, <<Also("startInstance_Party"), Dispose>>, 0),
  T(1, Yes, {}, <<Also("warp"), Give(Some, 1), Also("gainExp"), Dispose>>, 0),
  T(1, Yes, {}, <<>>, 0) }

npc_9120010 == {
  T(0, Start, {}, <<YesNo>>, 1),
  T(1, Yes, {}, <<Menu>>, 2),
  T(1, No, {}, <<Ok, SafeDispose>>, 0),
  T(2, Yes, {Has(4000064, 100), Room(1, 1), Room(2, 1), Room(4, 1)}, <<Take(4000064, 100), Give(Some, Some),
      Ok, SafeDispose>>, 0),
  T(2, Yes, {Lacks(4000064, 100), Room(1, 1), Room(2, 1), Room(4, 1)}, <<Ok, SafeDispose>>, 0),
  T(2, Yes, {}, <<Say, Dispose>>, 0),
  T(2, Yes, {Has(4000065, 100), Room(1, 1), Room(2, 1), Room(4, 1)}, <<Take(4000065, 100), Give(Some, Some),
      Ok, SafeDispose>>, 0),
  T(2, Yes, {Lacks(4000065, 100), Room(1, 1), Room(2, 1), Room(4, 1)}, <<Ok, SafeDispose>>, 0),
  T(2, Yes, {Has(4000066, 100), Room(1, 1), Room(2, 1), Room(4, 1)}, <<Take(4000066, 100), Give(Some, Some),
      Ok, SafeDispose>>, 0),
  T(2, Yes, {Lacks(4000066, 100), Room(1, 1), Room(2, 1), Room(4, 1)}, <<Ok, SafeDispose>>, 0),
  T(2, Yes, {Has(4000075, 100), Room(1, 1), Room(2, 1), Room(4, 1)}, <<Take(4000075, 100), Give(Some, Some),
      Ok, SafeDispose>>, 0),
  T(2, Yes, {Lacks(4000075, 100), Room(1, 1), Room(2, 1), Room(4, 1)}, <<Ok, SafeDispose>>, 0),
  T(2, Yes, {Has(4000077, 100), Room(1, 1), Room(2, 1), Room(4, 1)}, <<Take(4000077, 100), Give(Some, Some),
      Ok, SafeDispose>>, 0),
  T(2, Yes, {Lacks(4000077, 100), Room(1, 1), Room(2, 1), Room(4, 1)}, <<Ok, SafeDispose>>, 0),
  T(2, Yes, {Has(4000089, 100), Room(1, 1), Room(2, 1), Room(4, 1)}, <<Take(4000089, 100), Give(Some, Some),
      Ok, SafeDispose>>, 0),
  T(2, Yes, {Lacks(4000089, 100), Room(1, 1), Room(2, 1), Room(4, 1)}, <<Ok, SafeDispose>>, 0),
  T(2, Yes, {Has(4000090, 100), Room(1, 1), Room(2, 1), Room(4, 1)}, <<Take(4000090, 100), Give(Some, Some),
      Ok, SafeDispose>>, 0),
  T(2, Yes, {Lacks(4000090, 100), Room(1, 1), Room(2, 1), Room(4, 1)}, <<Ok, SafeDispose>>, 0),
  T(2, Yes, {Has(4000091, 100), Room(1, 1), Room(2, 1), Room(4, 1)}, <<Take(4000091, 100), Give(Some, Some),
      Ok, SafeDispose>>, 0),
  T(2, Yes, {Lacks(4000091, 100), Room(1, 1), Room(2, 1), Room(4, 1)}, <<Ok, SafeDispose>>, 0),
  T(2, Yes, {Has(4000092, 100), Room(1, 1), Room(2, 1), Room(4, 1)}, <<Take(4000092, 100), Give(Some, Some),
      Ok, SafeDispose>>, 0),
  T(2, Yes, {Lacks(4000092, 100), Room(1, 1), Room(2, 1), Room(4, 1)}, <<Ok, SafeDispose>>, 0),
  T(2, Yes, {Has(4000093, 100), Room(1, 1), Room(2, 1), Room(4, 1)}, <<Take(4000093, 100), Give(Some, Some),
      Ok, SafeDispose>>, 0),
  T(2, Yes, {Lacks(4000093, 100), Room(1, 1), Room(2, 1), Room(4, 1)}, <<Ok, SafeDispose>>, 0),
  T(2, Yes, {Has(4000094, 100), Room(1, 1), Room(2, 1), Room(4, 1)}, <<Take(4000094, 100), Give(Some, Some),
      Ok, SafeDispose>>, 0),
  T(2, Yes, {Lacks(4000094, 100), Room(1, 1), Room(2, 1), Room(4, 1)}, <<Ok, SafeDispose>>, 0) }

npc_9120026 == {
  T(0, Start, {}, <<Also("warp"), Dispose>>, 0),
  T(0, Start, {}, <<Also("quest"), Dispose>>, 0),
  T(0, Start, {}, <<Give(4032361, 1), Also("warp"), Dispose>>, 0),
  T(0, Start, {}, <<Menu>>, 1),
  T(0, Start, {}, <<Menu>>, 2),
  T(1, Yes, {}, <<Also("warp"), Dispose>>, 0),
  T(1, Yes, {}, <<Ok, Dispose>>, 0),
  T(1, Yes, {}, <<Dispose>>, 0),
  T(2, Yes, {}, <<Dispose>>, 0),
  T(2, Yes, {}, <<Also("warp"), Dispose>>, 0) }

npc_9120036 == {
  T(0, Start, {}, <<Ok, Dispose>>, 0),
  T(0, Start, {}, <<YesNo>>, 1),
  T(0, Start, {}, <<Menu>>, 2),
  T(0, Start, {}, <<Menu>>, 3),
  T(0, Start, {}, <<Ok, SafeDispose>>, 0),
  T(0, Start, {}, <<YesNo>>, 4),
  T(0, Start, {}, <<YesNo>>, 5),
  T(0, Start, {}, <<Say>>, 6),
  T(1, Yes, {}, <<Also("registerSquad"), Ok, Dispose>>, 0),
  T(1, No, {}, <<Dispose>>, 0),
  T(2, Yes, {}, <<Say, Dispose>>, 0),
  T(2, Yes, {}, <<Ok, Dispose>>, 0),
  T(2, Yes, {}, <<Menu>>, 7),
  T(2, Yes, {}, <<Menu>>, 8),
  T(2, Yes, {}, <<Say>>, 9),
  T(2, Yes, {}, <<Also("startInstance"), Dispose>>, 0),
  T(3, Yes, {}, <<Say, Dispose>>, 0),
  T(3, Yes, {}, <<Ok, Dispose>>, 0),
  T(3, Yes, {}, <<Also("addMember"), Ok, Dispose>>, 0),
  T(4, Both, {}, <<Dispose>>, 0),
  T(4, Yes, {}, <<Also("setNextPlayer"), Ok, Dispose>>, 0),
  T(5, Both, {}, <<Also("reAdd"), SafeDispose>>, 0),
  T(5, Both, {}, <<Also("reAdd"), Ok, SafeDispose>>, 0),
  T(6, Yes, {}, <<Also("warp"), Dispose>>, 0),
  T(7, Yes, {}, <<Also("banMember"), Dispose>>, 0),
  T(8, Yes, {}, <<Dispose>>, 0),
  T(8, Yes, {}, <<Also("acceptMember"), Dispose>>, 0),
  T(9, Yes, {}, <<Dispose>>, 0) }

npc_9120037 == {
  T(0, Start, {}, <<Ok, Dispose>>, 0),
  T(0, Start, {}, <<YesNo>>, 1),
  T(0, Start, {}, <<Menu>>, 2),
  T(0, Start, {}, <<Menu>>, 3),
  T(0, Start, {}, <<Ok, SafeDispose>>, 0),
  T(0, Start, {}, <<YesNo>>, 4),
  T(0, Start, {}, <<YesNo>>, 5),
  T(0, Start, {}, <<Say>>, 6),
  T(1, Yes, {}, <<Also("registerSquad"), Ok, Dispose>>, 0),
  T(1, No, {}, <<Dispose>>, 0),
  T(2, Yes, {}, <<Say, Dispose>>, 0),
  T(2, Yes, {}, <<Ok, Dispose>>, 0),
  T(2, Yes, {}, <<Menu>>, 7),
  T(2, Yes, {}, <<Menu>>, 8),
  T(2, Yes, {}, <<Say>>, 9),
  T(2, Yes, {}, <<Also("startInstance"), Dispose>>, 0),
  T(3, Yes, {}, <<Say, Dispose>>, 0),
  T(3, Yes, {}, <<Ok, Dispose>>, 0),
  T(3, Yes, {}, <<Also("addMember"), Ok, Dispose>>, 0),
  T(4, Both, {}, <<Dispose>>, 0),
  T(4, Yes, {}, <<Also("setNextPlayer"), Ok, Dispose>>, 0),
  T(5, Both, {}, <<Also("reAdd"), SafeDispose>>, 0),
  T(5, Both, {}, <<Also("reAdd"), Ok, SafeDispose>>, 0),
  T(6, Yes, {}, <<Also("warp"), Dispose>>, 0),
  T(7, Yes, {}, <<Also("banMember"), Dispose>>, 0),
  T(8, Yes, {}, <<Dispose>>, 0),
  T(8, Yes, {}, <<Also("acceptMember"), Dispose>>, 0),
  T(9, Yes, {}, <<Dispose>>, 0) }

npc_9120039 == {
  T(0, Start, {}, <<Ok, Dispose>>, 0),
  T(0, Start, {}, <<YesNo>>, 1),
  T(0, Start, {}, <<Menu>>, 2),
  T(0, Start, {}, <<Menu>>, 3),
  T(0, Start, {}, <<Ok, SafeDispose>>, 0),
  T(0, Start, {}, <<YesNo>>, 4),
  T(0, Start, {}, <<YesNo>>, 5),
  T(0, Start, {}, <<Say>>, 6),
  T(1, Yes, {}, <<Also("registerSquad"), Ok, Dispose>>, 0),
  T(1, No, {}, <<Dispose>>, 0),
  T(2, Yes, {}, <<Say, Dispose>>, 0),
  T(2, Yes, {}, <<Ok, Dispose>>, 0),
  T(2, Yes, {}, <<Menu>>, 7),
  T(2, Yes, {}, <<Menu>>, 8),
  T(2, Yes, {}, <<Say>>, 9),
  T(2, Yes, {}, <<Also("startInstance"), Dispose>>, 0),
  T(3, Yes, {}, <<Say, Dispose>>, 0),
  T(3, Yes, {}, <<Ok, Dispose>>, 0),
  T(3, Yes, {}, <<Also("addMember"), Ok, Dispose>>, 0),
  T(4, Both, {}, <<Dispose>>, 0),
  T(4, Yes, {}, <<Also("setNextPlayer"), Ok, Dispose>>, 0),
  T(5, Both, {}, <<Also("reAdd"), SafeDispose>>, 0),
  T(5, Both, {}, <<Also("reAdd"), Ok, SafeDispose>>, 0),
  T(6, Yes, {}, <<Also("warp"), Dispose>>, 0),
  T(7, Yes, {}, <<Also("banMember"), Dispose>>, 0),
  T(8, Yes, {}, <<Dispose>>, 0),
  T(8, Yes, {}, <<Also("acceptMember"), Dispose>>, 0),
  T(9, Yes, {}, <<Dispose>>, 0) }

npc_9120040 == {
  T(0, Start, {}, <<Ok, Dispose>>, 0),
  T(0, Start, {}, <<YesNo>>, 1),
  T(0, Start, {}, <<Menu>>, 2),
  T(0, Start, {}, <<Menu>>, 3),
  T(0, Start, {}, <<Ok, SafeDispose>>, 0),
  T(0, Start, {}, <<YesNo>>, 4),
  T(0, Start, {}, <<YesNo>>, 5),
  T(0, Start, {}, <<Say>>, 6),
  T(1, Yes, {}, <<Also("registerSquad"), Ok, Dispose>>, 0),
  T(1, No, {}, <<Dispose>>, 0),
  T(2, Yes, {}, <<Say, Dispose>>, 0),
  T(2, Yes, {}, <<Ok, Dispose>>, 0),
  T(2, Yes, {}, <<Menu>>, 7),
  T(2, Yes, {}, <<Menu>>, 8),
  T(2, Yes, {}, <<Say>>, 9),
  T(2, Yes, {}, <<Also("startInstance"), Dispose>>, 0),
  T(3, Yes, {}, <<Say, Dispose>>, 0),
  T(3, Yes, {}, <<Ok, Dispose>>, 0),
  T(3, Yes, {}, <<Also("addMember"), Ok, Dispose>>, 0),
  T(4, Both, {}, <<Dispose>>, 0),
  T(4, Yes, {}, <<Also("setNextPlayer"), Ok, Dispose>>, 0),
  T(5, Both, {}, <<Also("reAdd"), SafeDispose>>, 0),
  T(5, Both, {}, <<Also("reAdd"), Ok, SafeDispose>>, 0),
  T(6, Yes, {}, <<Also("warp"), Dispose>>, 0),
  T(7, Yes, {}, <<Also("banMember"), Dispose>>, 0),
  T(8, Yes, {}, <<Dispose>>, 0),
  T(8, Yes, {}, <<Also("acceptMember"), Dispose>>, 0),
  T(9, Yes, {}, <<Dispose>>, 0) }

npc_9120050 == {
  T(0, Start, {}, <<Ok, Dispose>>, 0),
  T(0, Start, {}, <<YesNo>>, 1),
  T(0, Start, {}, <<Menu>>, 2),
  T(0, Start, {}, <<Menu>>, 3),
  T(0, Start, {}, <<Ok, SafeDispose>>, 0),
  T(0, Start, {}, <<YesNo>>, 4),
  T(0, Start, {}, <<Say, Dispose>>, 0),
  T(0, Start, {}, <<Say>>, 5),
  T(1, Yes, {}, <<Also("registerSquad"), Ok, Dispose>>, 0),
  T(1, No, {}, <<Dispose>>, 0),
  T(2, Yes, {}, <<Say, Dispose>>, 0),
  T(2, Yes, {}, <<Ok, Dispose>>, 0),
  T(2, Yes, {}, <<Menu>>, 6),
  T(2, Yes, {}, <<Menu>>, 7),
  T(2, Yes, {}, <<Say>>, 8),
  T(2, Yes, {}, <<Also("startInstance"), Dispose>>, 0),
  T(3, Yes, {}, <<Say, Dispose>>, 0),
  T(3, Yes, {}, <<Ok, Dispose>>, 0),
  T(3, Yes, {}, <<Also("addMember"), Ok, Dispose>>, 0),
  T(4, Both, {}, <<Dispose>>, 0),
  T(4, Yes, {}, <<Also("setNextPlayer"), Ok, Dispose>>, 0),
  T(5, Yes, {}, <<Also("warp"), Dispose>>, 0),
  T(6, Yes, {}, <<Also("banMember"), Dispose>>, 0),
  T(7, Yes, {}, <<Dispose>>, 0),
  T(7, Yes, {}, <<Also("acceptMember"), Dispose>>, 0),
  T(8, Yes, {}, <<Dispose>>, 0) }

npc_9120052 == {
  T(0, Start, {}, <<Ok, Dispose>>, 0),
  T(0, Start, {}, <<YesNo>>, 1),
  T(0, Start, {}, <<Menu>>, 2),
  T(0, Start, {}, <<Menu>>, 3),
  T(0, Start, {}, <<Ok, SafeDispose>>, 0),
  T(0, Start, {}, <<YesNo>>, 4),
  T(0, Start, {}, <<YesNo>>, 5),
  T(0, Start, {}, <<Say>>, 6),
  T(1, Yes, {}, <<Also("registerSquad"), Ok, Dispose>>, 0),
  T(1, No, {}, <<Dispose>>, 0),
  T(2, Yes, {}, <<Say, Dispose>>, 0),
  T(2, Yes, {}, <<Ok, Dispose>>, 0),
  T(2, Yes, {}, <<Menu>>, 7),
  T(2, Yes, {}, <<Menu>>, 8),
  T(2, Yes, {}, <<Say>>, 9),
  T(2, Yes, {}, <<Also("startInstance"), Dispose>>, 0),
  T(3, Yes, {}, <<Say, Dispose>>, 0),
  T(3, Yes, {}, <<Ok, Dispose>>, 0),
  T(3, Yes, {}, <<Also("addMember"), Ok, Dispose>>, 0),
  T(4, Both, {}, <<Dispose>>, 0),
  T(4, Yes, {}, <<Also("setNextPlayer"), Ok, Dispose>>, 0),
  T(5, Both, {}, <<Also("reAdd"), SafeDispose>>, 0),
  T(5, Both, {}, <<Also("reAdd"), Ok, SafeDispose>>, 0),
  T(6, Yes, {}, <<Also("warp"), Dispose>>, 0),
  T(7, Yes, {}, <<Also("banMember"), Dispose>>, 0),
  T(8, Yes, {}, <<Dispose>>, 0),
  T(8, Yes, {}, <<Also("acceptMember"), Dispose>>, 0),
  T(9, Yes, {}, <<Dispose>>, 0) }

npc_9120053 == {
  T(0, Start, {}, <<Ok, Dispose>>, 0),
  T(0, Start, {}, <<YesNo>>, 1),
  T(0, Start, {}, <<Menu>>, 2),
  T(0, Start, {}, <<Menu>>, 3),
  T(0, Start, {}, <<Ok, SafeDispose>>, 0),
  T(0, Start, {}, <<YesNo>>, 4),
  T(0, Start, {}, <<YesNo>>, 5),
  T(0, Start, {}, <<Say>>, 6),
  T(1, Yes, {}, <<Also("registerSquad"), Ok, Dispose>>, 0),
  T(1, No, {}, <<Dispose>>, 0),
  T(2, Yes, {}, <<Say, Dispose>>, 0),
  T(2, Yes, {}, <<Ok, Dispose>>, 0),
  T(2, Yes, {}, <<Menu>>, 7),
  T(2, Yes, {}, <<Menu>>, 8),
  T(2, Yes, {}, <<Say>>, 9),
  T(2, Yes, {}, <<Also("startInstance"), Dispose>>, 0),
  T(3, Yes, {}, <<Say, Dispose>>, 0),
  T(3, Yes, {}, <<Ok, Dispose>>, 0),
  T(3, Yes, {}, <<Also("addMember"), Ok, Dispose>>, 0),
  T(4, Both, {}, <<Dispose>>, 0),
  T(4, Yes, {}, <<Also("setNextPlayer"), Ok, Dispose>>, 0),
  T(5, Both, {}, <<Also("reAdd"), SafeDispose>>, 0),
  T(5, Both, {}, <<Also("reAdd"), Ok, SafeDispose>>, 0),
  T(6, Yes, {}, <<Also("warp"), Dispose>>, 0),
  T(7, Yes, {}, <<Also("banMember"), Dispose>>, 0),
  T(8, Yes, {}, <<Dispose>>, 0),
  T(8, Yes, {}, <<Also("acceptMember"), Dispose>>, 0),
  T(9, Yes, {}, <<Dispose>>, 0) }

npc_9201113 == {
  T(0, Start, {}, <<TakeAll(4001256), TakeAll(4001257), TakeAll(4001258), TakeAll(4001259), TakeAll(4001260),
      Ok, Dispose>>, 0),
  T(0, Start, {}, <<TakeAll(4001256), TakeAll(4001257), TakeAll(4001258), TakeAll(4001259), TakeAll(4001260),
      YesNo>>, 1),
  T(0, Start, {}, <<TakeAll(4001256), TakeAll(4001257), TakeAll(4001258), TakeAll(4001259), TakeAll(4001260),
      Menu>>, 2),
  T(0, Start, {}, <<TakeAll(4001256), TakeAll(4001257), TakeAll(4001258), TakeAll(4001259), TakeAll(4001260),
      Menu>>, 3),
  T(0, Start, {}, <<TakeAll(4001256), TakeAll(4001257), TakeAll(4001258), TakeAll(4001259), TakeAll(4001260),
      Ok, SafeDispose>>, 0),
  T(0, Start, {}, <<TakeAll(4001256), TakeAll(4001257), TakeAll(4001258), TakeAll(4001259), TakeAll(4001260),
      YesNo>>, 4),
  T(1, Yes, {Has(4032012, 1)}, <<Also("registerSquad"), Ok, Dispose>>, 0),
  T(1, Yes, {Lacks(4032012, 1)}, <<Ok, Dispose>>, 0),
  T(1, No, {}, <<Dispose>>, 0),
  T(2, Yes, {}, <<Say, Dispose>>, 0),
  T(2, Yes, {}, <<Ok, Dispose>>, 0),
  T(2, Yes, {}, <<Menu>>, 5),
  T(2, Yes, {}, <<Menu>>, 6),
  T(2, Yes, {}, <<Say>>, 7),
  T(2, Yes, {Has(4032012, 1)}, <<Take(4032012, 1), Also("startInstance"), Dispose>>, 0),
  T(3, Yes, {}, <<Say, Dispose>>, 0),
  T(3, Yes, {}, <<Ok, Dispose>>, 0),
  T(3, Yes, {}, <<Also("addMember"), Ok, Dispose>>, 0),
  T(4, Both, {}, <<Also("reAdd"), SafeDispose>>, 0),
  T(4, Both, {}, <<Also("reAdd"), Ok, SafeDispose>>, 0),
  T(5, Yes, {}, <<Also("banMember"), Dispose>>, 0),
  T(6, Yes, {}, <<Dispose>>, 0),
  T(6, Yes, {}, <<Also("acceptMember"), Dispose>>, 0),
  T(7, Yes, {}, <<Dispose>>, 0) }

npc_9209000 == {
  T(0, Start, {}, <<Menu>>, 1),
  T(0, Start, {}, <<Ok, Dispose>>, 0),
  T(1, Yes, {Has(4000013, 50), Room(0, 3)}, <<Also("setBossLog"), Take(4000013, 50), Give(4000313, 5),
      Also("gainExp"), Ok, Dispose>>, 0),
  T(1, Yes, {Full(0, 3), Has(4000013, 50)}, <<Ok, Dispose>>, 0),
  T(1, Yes, {Lacks(4000013, 50)}, <<Ok, Dispose>>, 0),
  T(1, Yes, {}, <<YesNo>>, 2),
  T(2, Yes, {Rich(10000)}, <<Pay(10000), Also("warp"), Dispose>>, 0),
  T(2, Yes, {Poor(10000)}, <<Ok, Dispose>>, 0),
  T(2, No, {}, <<Dispose>>, 0) }

\* lines 1 to 113 of 9209001_2.js
npc_9209001_2a == {
  T(0, Start, {}, <<Menu>>, 1),
  T(0, Start, {}, <<Say>>, 1),
  T(1, Yes, {}, <<Say>>, 2),
  T(1, Yes, {}, <<Say>>, 3),
  T(1, Yes, {}, <<Say>>, 4),
  T(1, Yes, {}, <<Say>>, 5),
  T(1, Yes, {}, <<Say>>, 6),
  T(1, Yes, {}, <<Say>>, 7),
  T(1, Yes, {}, <<Say>>, 8),
  T(1, Yes, {}, <<Say>>, 9),
  T(1, Yes, {}, <<Say>>, 10),
  T(1, Yes, {}, <<Say>>, 11),
  T(1, Yes, {}, <<Dispose, Say>>, 0),
  T(1, Yes, {}, <<Dispose, Ok, Dispose>>, 0),
  T(12, No, {}, <<Dispose>>, 0) }

\* lines 114 to 256 of 9209001_2.js
npc_9209001_2b == {
  T(1, Yes, {}, <<Dispose, Ok, Dispose>>, 0),
  T(2, Yes, {}, <<Ok, Dispose>>, 0),
  T(2, Yes, {Has(3992025, 19)}, <<Take(3992025, 19), YesNo>>, 12),
  T(3, Yes, {}, <<Ok, Dispose>>, 0),
  T(3, Yes, {Has(3992025, 49)}, <<Take(3992025, 49), YesNo>>, 12),
  T(3, Yes, {Has(3992025, 49)}, <<Take(3992025, 49), Ok, Dispose>>, 0),
  T(4, Yes, {}, <<Ok, Dispose>>, 0),
  T(4, Yes, {Has(3992025, 99)}, <<Take(3992025, 99), YesNo>>, 12),
  T(4, Yes, {Has(3992025, 99)}, <<Take(3992025, 99), Ok, Dispose>>, 0),
  T(5, Yes, {}, <<Ok, Dispose>>, 0),
  T(5, Yes, {Has(3992025, 169)}, <<Take(3992025, 169), YesNo>>, 12),
  T(5, Yes, {Has(3992025, 169)}, <<Take(3992025, 169), Ok, Dispose>>, 0),
  T(6, Yes, {}, <<Ok, Dispose>>, 0),
  T(6, Yes, {Has(3992025, 259)}, <<Take(3992025, 259), YesNo>>, 12),
  T(6, Yes, {Has(3992025, 259)}, <<Take(3992025, 259), Ok, Dispose>>, 0),
  T(7, Yes, {}, <<Ok, Dispose>>, 0),
  T(7, Yes, {Has(3992025, 369)}, <<Take(3992025, 369), YesNo>>, 12),
  T(7, Yes, {Has(3992025, 369)}, <<Take(3992025, 369), Ok, Dispose>>, 0),
  T(8, Yes, {}, <<Ok, Dispose>>, 0),
  T(8, Yes, {Has(3992025, 499)}, <<Take(3992025, 499), YesNo>>, 12),
  T(8, Yes, {Has(3992025, 499)}, <<Take(3992025, 499), Ok, Dispose>>, 0),
  T(9, Yes, {}, <<Ok, Dispose>>, 0),
  T(9, Yes, {Has(3992025, 649)}, <<Take(3992025, 649), YesNo>>, 12),
  T(9, Yes, {Has(3992025, 649)}, <<Take(3992025, 649), Also("setStr"), Also("setDex"), Also("setInt"),
      Also("setLuk"), Also("setHp"), Also("setMp"), Also("setWatk"), Also("setMatk"), Also("setOwner"),
      Take(Some, Some), Give(Some, Some), Ok, Dispose>>, 0),
  T(10, Yes, {}, <<Ok, Dispose>>, 0),
  T(10, Yes, {Has(3992025, 819)}, <<Take(3992025, 819), YesNo>>, 12),
  T(10, Yes, {Has(3992025, 819)}, <<Take(3992025, 819), Also("setStr"), Also("setDex"), Also("setInt"),
      Also("setLuk"), Also("setHp"), Also("setMp"), Also("setWatk"), Also("setMatk"), Also("setOwner"),
      Take(Some, Some), Give(Some, Some), Ok, Dispose>>, 0),
  T(11, Yes, {}, <<Ok, Dispose>>, 0),
  T(11, Yes, {Has(3992025, 1009)}, <<Take(3992025, 1009), YesNo>>, 12),
  T(11, Yes, {Has(3992025, 1009)}, <<Take(3992025, 1009), Also("setStr"), Also("setDex"), Also("setInt"),
      Also("setLuk"), Also("setHp"), Also("setMp"), Also("setWatk"), Also("setMatk"), Also("setOwner"),
      Take(Some, Some), Give(Some, Some), Ok, Dispose>>, 0),
  T(12, Yes, {}, <<Also("setStr"), Also("setDex"), Also("setInt"), Also("setLuk"), Also("setHp"),
      Also("setMp"), Also("setWatk"), Also("setMatk"), Also("setOwner"), Take(Some, Some), Give(Some, Some),
      Ok, Fail>>, 13),
  T(13, Yes, {}, <<>>, 0) }

\* lines 1 to 125 of 9209001_3.js
npc_9209001_3a == {
  T(0, Start, {}, <<Menu>>, 1),
  T(0, Start, {}, <<Say>>, 1),
  T(1, Yes, {}, <<Number>>, 2),
  T(2, Yes, {}, <<Say>>, 3),
  T(2, Yes, {}, <<Say>>, 4),
  T(2, Yes, {}, <<Say>>, 5),
  T(2, Yes, {}, <<Say>>, 6),
  T(2, Yes, {}, <<Say>>, 7),
  T(2, Yes, {}, <<Say>>, 8),
  T(2, Yes, {}, <<Say>>, 9),
  T(2, Yes, {}, <<Say>>, 10),
  T(2, Yes, {}, <<Say>>, 11),
  T(2, Yes, {}, <<Say>>, 12),
  T(2, Yes, {}, <<Dispose, Say>>, 0),
  T(2, Yes, {}, <<Dispose, Ok, Dispose>>, 0),
  T(2, No, {}, <<Ok, Dispose>>, 0),
  T(3, Yes, {}, <<Ok, Dispose>>, 0),
  T(4, Yes, {}, <<Ok, Dispose>>, 0),
  T(5, Yes, {}, <<Ok, Dispose>>, 0),
  T(6, Yes, {}, <<Ok, Dispose>>, 0),
  T(7, Yes, {}, <<Ok, Dispose>>, 0),
  T(8, Yes, {}, <<Ok, Dispose>>, 0),
  T(9, Yes, {}, <<Ok, Dispose>>, 0),
  T(10, Yes, {}, <<Ok, Dispose>>, 0),
  T(11, Yes, {}, <<Ok, Dispose>>, 0),
  T(12, Yes, {}, <<Ok, Dispose>>, 0),
  T(13, No, {}, <<Ok, Dispose>>, 0) }

\* lines 126 to 271 of 9209001_3.js
npc_9209001_3b == {
  T(3, Yes, {}, <<Ok, Dispose>>, 0),
  T(3, Yes, {Has(3992025, 19)}, <<Take(3992025, 19), Take(2530000, Some), YesNo>>, 13),
  T(3, Yes, {Has(3992025, 19)}, <<Take(3992025, 19), Also("setStr"), Also("setDex"), Also("setInt"),
      Also("setLuk"), Also("setHp"), Also("setMp"), Also("setWatk"), Also("setMatk"), Also("setOwner"),
      Take(Some, Some), Give(Some, Some), Ok, Dispose>>, 0),
  T(3, Yes, {Has(3992025, 19)}, <<Take(3992025, 19), Give(3992025, Some), Ok, Dispose>>, 0),
  T(4, Yes, {}, <<Ok, Dispose>>, 0),
  T(4, Yes, {Has(3992025, 49)}, <<Take(3992025, 49), Take(2530000, Some), YesNo>>, 13),
  T(4, Yes, {Has(3992025, 49)}, <<Take(3992025, 49), Also("setStr"), Also("setDex"), Also("setInt"),
      Also("setLuk"), Also("setHp"), Also("setMp"), Also("setWatk"), Also("setMatk"), Also("setOwner"),
      Take(Some, Some), Give(Some, Some), Ok, Dispose>>, 0),
  T(4, Yes, {Has(3992025, 49)}, <<Take(3992025, 49), Give(3992025, Some), Ok, Dispose>>, 0),
  T(5, Yes, {}, <<Ok, Dispose>>, 0),
  T(5, Yes, {Has(3992025, 99)}, <<Take(3992025, 99), Take(2530000, Some), YesNo>>, 13),
  T(5, Yes, {Has(3992025, 99)}, <<Take(3992025, 99), Also("setStr"), Also("setDex"), Also("setInt"),
      Also("setLuk"), Also("setHp"), Also("setMp"), Also("setWatk"), Also("setMatk"), Also("setOwner"),
      Take(Some, Some), Give(Some, Some), Ok, Dispose>>, 0),
  T(5, Yes, {Has(3992025, 99)}, <<Take(3992025, 99), Give(3992025, Some), Ok, Dispose>>, 0),
  T(6, Yes, {}, <<Ok, Dispose>>, 0),
  T(6, Yes, {Has(3992025, 169)}, <<Take(3992025, 169), Take(2530000, Some), YesNo>>, 13),
  T(6, Yes, {Has(3992025, 169)}, <<Take(3992025, 169), Also("setStr"), Also("setDex"), Also("setInt"),
      Also("setLuk"), Also("setHp"), Also("setMp"), Also("setWatk"), Also("setMatk"), Also("setOwner"),
      Take(Some, Some), Give(Some, Some), Ok, Dispose>>, 0),
  T(6, Yes, {Has(3992025, 169)}, <<Take(3992025, 169), Give(3992025, Some), Ok, Dispose>>, 0),
  T(7, Yes, {}, <<Ok, Dispose>>, 0),
  T(7, Yes, {Has(3992025, 259)}, <<Take(3992025, 259), Take(2530000, Some), YesNo>>, 13),
  T(7, Yes, {Has(3992025, 259)}, <<Take(3992025, 259), Also("setStr"), Also("setDex"), Also("setInt"),
      Also("setLuk"), Also("setHp"), Also("setMp"), Also("setWatk"), Also("setMatk"), Also("setOwner"),
      Take(Some, Some), Give(Some, Some), Ok, Dispose>>, 0),
  T(7, Yes, {Has(3992025, 259)}, <<Take(3992025, 259), Give(3992025, Some), Ok, Dispose>>, 0),
  T(8, Yes, {}, <<Ok, Dispose>>, 0),
  T(8, Yes, {Has(3992025, 369)}, <<Take(3992025, 369), Take(2530000, Some), YesNo>>, 13),
  T(8, Yes, {Has(3992025, 369)}, <<Take(3992025, 369), Also("setStr"), Also("setDex"), Also("setInt"),
      Also("setLuk"), Also("setHp"), Also("setMp"), Also("setWatk"), Also("setMatk"), Also("setOwner"),
      Take(Some, Some), Give(Some, Some), Ok, Dispose>>, 0),
  T(8, Yes, {Has(3992025, 369)}, <<Take(3992025, 369), Give(3992025, Some), Ok, Dispose>>, 0),
  T(9, Yes, {}, <<Ok, Dispose>>, 0),
  T(9, Yes, {Has(3992025, 499)}, <<Take(3992025, 499), Take(2530000, Some), YesNo>>, 13),
  T(9, Yes, {Has(3992025, 499)}, <<Take(3992025, 499), Also("setStr"), Also("setDex"), Also("setInt"),
      Also("setLuk"), Also("setHp"), Also("setMp"), Also("setWatk"), Also("setMatk"), Also("setOwner"),
      Take(Some, Some), Give(Some, Some), Ok, Dispose>>, 0),
  T(9, Yes, {Has(3992025, 499)}, <<Take(3992025, 499), Give(3992025, Some), Ok, Dispose>>, 0),
  T(10, Yes, {}, <<Ok, Dispose>>, 0),
  T(10, Yes, {Has(3992025, 649)}, <<Take(3992025, 649), Take(2530000, Some), YesNo>>, 13),
  T(10, Yes, {Has(3992025, 649)}, <<Take(3992025, 649), Also("setStr"), Also("setDex"), Also("setInt"),
      Also("setLuk"), Also("setHp"), Also("setMp"), Also("setWatk"), Also("setMatk"), Also("setOwner"),
      Take(Some, Some), Give(Some, Some), Ok, Dispose>>, 0),
  T(10, Yes, {Has(3992025, 649)}, <<Take(3992025, 649), Give(3992025, Some), Ok, Dispose>>, 0),
  T(11, Yes, {}, <<Ok, Dispose>>, 0),
  T(11, Yes, {Has(3992025, 819)}, <<Take(3992025, 819), Take(2530000, Some), YesNo>>, 13),
  T(11, Yes, {Has(3992025, 819)}, <<Take(3992025, 819), Also("setStr"), Also("setDex"), Also("setInt"),
      Also("setLuk"), Also("setHp"), Also("setMp"), Also("setWatk"), Also("setMatk"), Also("setOwner"),
      Take(Some, Some), Give(Some, Some), Ok, Dispose>>, 0),
  T(11, Yes, {Has(3992025, 819)}, <<Take(3992025, 819), Give(3992025, Some), Ok, Dispose>>, 0),
  T(12, Yes, {}, <<Ok, Dispose>>, 0),
  T(12, Yes, {Has(3992025, 1009)}, <<Take(3992025, 1009), Take(2530000, Some), YesNo>>, 13),
  T(12, Yes, {Has(3992025, 1009)}, <<Take(3992025, 1009), Also("setStr"), Also("setDex"), Also("setInt"),
      Also("setLuk"), Also("setHp"), Also("setMp"), Also("setWatk"), Also("setMatk"), Also("setOwner"),
      Take(Some, Some), Give(Some, Some), Ok, Dispose>>, 0),
  T(12, Yes, {Has(3992025, 1009)}, <<Take(3992025, 1009), Give(3992025, Some), Ok, Dispose>>, 0),
  T(13, Yes, {}, <<Also("setStr"), Also("setDex"), Also("setInt"), Also("setLuk"), Also("setHp"),
      Also("setMp"), Also("setWatk"), Also("setMatk"), Also("setOwner"), Dispose, Take(Some, Some),
      Give(Some, Some), Ok, Fail>>, 0) }

\* lines 5 to 114 of 9209001_4.js
npc_9209001_4a == {
  T(0, Start, {}, <<Say>>, 1),
  T(1, Yes, {}, <<Menu>>, 2),
  T(2, Yes, {}, <<Ok, Dispose>>, 0),
  T(2, Yes, {Has(2640010, 1)}, <<Menu>>, 3),
  T(2, Yes, {Has(2640011, 1)}, <<Menu>>, 4),
  T(2, Yes, {Has(2615001, 1)}, <<Menu>>, 5),
  T(3, Yes, {}, <<YesNo>>, 6),
  T(3, Yes, {}, <<Ok, Dispose>>, 0),
  T(3, Yes, {}, <<YesNo>>, 7),
  T(4, Yes, {}, <<YesNo>>, 8),
  T(4, Yes, {}, <<Ok, Dispose>>, 0),
  T(4, Yes, {}, <<YesNo>>, 9),
  T(5, Yes, {}, <<YesNo>>, 9),
  T(5, Yes, {}, <<Ok, Dispose>>, 0),
  T(5, Yes, {}, <<YesNo>>, 10),
  T(6, Both, {}, <<Ok, Dispose>>, 0),
  T(6, No, {}, <<Dispose>>, 0) }

\* lines 115 to 259 of 9209001_4.js
npc_9209001_4b == {
  T(5, Yes, {}, <<Ok, Dispose>>, 0),
  T(6, Yes, {Has(2340000, 1)}, <<Fail>>, 0),
  T(6, Both, {}, <<Ok, Dispose>>, 0),
  T(7, Yes, {}, <<Fail>>, 0),
  T(7, Yes, {}, <<Ok, Dispose>>, 0),
  T(7, No, {}, <<Dispose>>, 0),
  T(8, Yes, {}, <<Fail>>, 0),
  T(8, Both, {}, <<Ok, Dispose>>, 0),
  T(8, No, {Has(2340000, 1)}, <<Fail>>, 0),
  T(9, Both, {}, <<Fail>>, 0),
  T(9, Both, {}, <<Ok, Dispose>>, 0),
  T(10, No, {}, <<Ok, Dispose>>, 0) }

\* lines 260 to 389 of 9209001_4.js
npc_9209001_4c == {
  T(9, Both, {}, <<Fail>>, 0),
  T(9, Both, {}, <<Ok, Dispose>>, 0),
  T(10, Yes, {}, <<>>, 0),
  T(10, No, {}, <<Fail>>, 0),
  T(10, No, {}, <<Ok, Dispose>>, 0) }

\* lines 11 to 160 of 9209001_5.js
npc_9209001_5a == {
  T(0, Start, {}, <<Menu>>, 1),
  T(0, Start, {}, <<Say>>, 1),
  T(1, Yes, {}, <<Menu>>, 2),
  T(2, Yes, {Has(2049100, 1), Rich(5000001)}, <<Menu>>, 3),
  T(2, Yes, {}, <<Ok, Dispose>>, 0),
  T(2, Yes, {Has(2049100, 1)}, <<Menu>>, 4),
  T(3, Yes, {}, <<YesNo>>, 5),
  T(3, Yes, {}, <<YesNo>>, 6),
  T(4, Yes, {}, <<YesNo>>, 7),
  T(4, Yes, {}, <<YesNo>>, 8),
  T(5, Yes, {Has(2340000, 1)}, <<Take(2049100, 1), Take(2340000, 1), Pay(5000000), Ok, Dispose>>, 0),
  T(5, Yes, {Has(2340000, 1)}, <<Take(2049100, 1), Take(2340000, 1), Pay(5000000), YesNo>>, 9),
  T(5, Both, {}, <<Ok, Dispose>>, 0),
  T(6, Yes, {}, <<Fail>>, 0),
  T(6, Yes, {}, <<Pay(5000000), Take(2049100, 1), YesNo>>, 9),
  T(6, Both, {}, <<Ok, Dispose>>, 0),
  T(7, Both, {}, <<Ok, Dispose>>, 0),
  T(8, Both, {}, <<Ok, Dispose>>, 0),
  T(9, No, {}, <<Ok, Dispose>>, 0) }

\* lines 161 to 495 of 9209001_5.js
npc_9209001_5b == {
  T(7, Yes, {Has(2340000, 1)}, <<Take(2049100, 1), Take(2340000, 1), Also("gainNX"), Ok, Dispose>>, 0),
  T(7, Yes, {Has(2340000, 1)}, <<Take(2049100, 1), Take(2340000, 1), Also("gainNX"), YesNo>>, 9),
  T(7, Both, {}, <<Ok, Dispose>>, 0),
  T(8, Yes, {}, <<Fail>>, 0),
  T(8, Yes, {}, <<Take(2049100, 1), Also("gainNX"), YesNo>>, 9),
  T(8, Both, {}, <<Ok, Dispose>>, 0),
  T(9, Yes, {}, <<Fail>>, 0) }

npc_9209001_6 == {
  T(0, Start, {}, <<Say>>, 1),
  T(1, Yes, {}, <<Ok>>, 2),
  T(1, Yes, {}, <<YesNo>>, 3),
  T(2, Yes, {}, <<Say>>, 1),
  T(3, Yes, {}, <<Ok>>, 2),
  T(3, Yes, {Has(4000000, 200), Has(4000134, 100), Has(4000175, 2), Rich(5000000)}, <<Take(4000000, 200),
      Take(4000175, 2), Take(4000134, 100), Pay(5000000), Also("setWatk"), Also("setMatk"), Also("setStr"),
      Also("setDex"), Also("setInt"), Also("setLuk"), Also("setLocked"), Take(Some, Some), Give(Some, Some),
      Also("setBossLog"), Ok>>, 2),
  T(3, No, {}, <<Say>>, 1) }

\* lines 1 to 123 of 9209001_7.js
npc_9209001_7a == {
  T(0, Start, {}, <<Menu>>, 1),
  T(1, Yes, {}, <<Say>>, 2),
  T(1, Yes, {}, <<Say>>, 3),
  T(4, Yes, {}, <<>>, 0) }

\* lines 124 to 510 of 9209001_7.js
npc_9209001_7b == {
  T(2, Yes, {}, <<Ok, Dispose, Also("gainDY"), Ok, Dispose>>, 0),
  T(2, Yes, {}, <<Ok, Dispose, Also("setMp"), Also("gainDY"), Ok, Fail>>, 0),
  T(2, Yes, {}, <<Ok, Dispose, Ok, Dispose>>, 0),
  T(3, Yes, {}, <<Ok, Dispose, Also("gainNX"), Ok, Dispose>>, 0),
  T(3, Yes, {}, <<Ok, Dispose, Also("setHp"), Also("gainNX"), Ok, Fail>>, 0),
  T(3, Yes, {}, <<Ok, Dispose, Ok, Dispose>>, 0),
  T(3, Yes, {}, <<Ok, Dispose>>, 0) }

\* lines 511 to 697 of 9209001_7.js
npc_9209001_7c == {
  T(2, Yes, {}, <<Ok, Dispose, Also("gainDY"), Ok, Dispose>>, 0),
  T(2, Yes, {}, <<Ok, Dispose, Also("setMp"), Also("gainDY"), Ok, Fail>>, 0),
  T(2, Yes, {}, <<Ok, Dispose, Ok, Dispose>>, 0),
  T(2, Yes, {}, <<Also("gainDY"), Ok, Dispose>>, 0),
  T(2, Yes, {}, <<Also("setMp"), Also("gainDY"), Ok, Fail>>, 4),
  T(2, Yes, {}, <<Ok, Dispose>>, 0),
  T(3, Yes, {}, <<Ok, Dispose, Also("gainNX"), Ok, Dispose>>, 0),
  T(3, Yes, {}, <<Ok, Dispose, Also("setHp"), Also("gainNX"), Ok, Fail>>, 0),
  T(3, Yes, {}, <<Also("gainNX"), Ok, Dispose>>, 0),
  T(3, Yes, {}, <<Also("setHp"), Also("gainNX"), Ok, Fail>>, 4) }

npc_9209001_10 == {
  T(0, Start, {}, <<Ok, Dispose>>, 0),
  T(0, Start, {}, <<Menu>>, 1),
  T(1, Yes, {}, <<Ok, Dispose>>, 0),
  T(1, Yes, {}, <<Dispose, OpenNpc>>, 0) }

npc_9209001_20 == {
  T(0, Start, {}, <<Say>>, 1),
  T(1, Yes, {}, <<Ok>>, 2),
  T(1, Yes, {}, <<YesNo>>, 3),
  T(2, Yes, {}, <<Say>>, 1),
  T(3, Yes, {}, <<Ok>>, 2),
  T(3, Yes, {Has(3992010, 100)}, <<Take(3992010, 100), Also("setWatk"), Also("setMatk"), Also("setStr"),
      Also("setDex"), Also("setInt"), Also("setLuk"), Take(Some, Some), Give(Some, Some), Also("setBossLog"),
      Ok>>, 2),
  T(3, Yes, {Has(3992010, 100)}, <<Take(3992010, 100), Also("setWatk"), Also("setMatk"), Also("setStr"),
      Also("setDex"), Also("setInt"), Also("setLuk"), Also("setLocked"), Take(Some, Some), Give(Some, Some),
      Also("setBossLog"), Ok, Fail>>, 4),
  T(3, No, {}, <<Say>>, 1),
  T(4, Yes, {}, <<>>, 0) }

npc_9209001_522 == {
  T(0, Start, {}, <<Ok, Dispose>>, 0),
  T(0, Start, {}, <<Menu>>, 1),
  T(1, Yes, {}, <<Ok, Dispose>>, 0),
  T(1, Yes, {}, <<YesNo>>, 2),
  T(1, Yes, {}, <<YesNo>>, 3),
  T(1, Yes, {}, <<YesNo>>, 4),
  T(2, Yes, {Rich(10000001)}, <<Take(Some, 1), Give(Some, 1), Pay(10000000), Ok, Dispose>>, 0),
  T(2, Yes, {}, <<Ok, Dispose>>, 0),
  T(2, No, {}, <<Dispose>>, 0),
  T(3, Yes, {}, <<Take(Some, 1), Give(Some, 1), Also("gainNX"), Ok, Dispose>>, 0),
  T(3, Yes, {}, <<Ok, Dispose>>, 0),
  T(3, No, {}, <<Dispose>>, 0),
  T(4, Yes, {Has(4032398, 5)}, <<Take(Some, 1), Give(Some, 1), Take(4032398, 5), Ok, Dispose>>, 0),
  T(4, Yes, {}, <<Ok, Dispose>>, 0),
  T(4, No, {}, <<Dispose>>, 0) }

npc_9220034 == {
  T(0, Start, {}, <<Menu>>, 1),
  T(0, Start, {}, <<YesNo>>, 2),
  T(1, Yes, {}, <<Ok, Dispose>>, 0),
  T(1, Yes, {}, <<YesNo>>, 3),
  T(1, Yes, {}, <<>>, 0),
  T(2, Both, {}, <<Ok, Dispose>>, 0),
  T(2, Yes, {}, <<YesNo>>, 3),
  T(2, Both, {}, <<>>, 0),
  T(3, Yes, {}, <<YesNo>>, 4),
  T(3, Both, {}, <<Ok, Dispose>>, 0),
  T(3, Yes, {}, <<Ok, Also("warpParty"), Also("resetFully"), Also("setBossLog"), Dispose>>, 0),
  T(3, Yes, {}, <<Ok>>, 5),
  T(3, Both, {}, <<>>, 0),
  T(4, Both, {}, <<Ok, Dispose>>, 0),
  T(4, Yes, {}, <<>>, 0),
  T(5, Yes, {}, <<Ok, Dispose>>, 0),
  T(5, Yes, {}, <<>>, 0) }

npc_9250022 == {
  T(0, Start, {Has(4031722, 1)}, <<Menu>>, 1),
  T(0, Start, {}, <<Ok, Dispose, Menu>>, 0),
  T(1, Yes, {Has(4031722, 1)}, <<Ok, Dispose>>, 0),
  T(1, Yes, {Has(4031722, 1)}, <<Also("startInstance"), Dispose>>, 0),
  T(1, Yes, {}, <<Ok, Dispose, Ok, Dispose>>, 0),
  T(1, Yes, {}, <<Ok, Dispose, Also("startInstance"), Dispose>>, 0) }

\* lines 1 to 111 of 9270047.js
npc_9270047a == {
  T(0, Start, {}, <<YesNo>>, 1),
  T(0, Start, {}, <<Ok, Dispose>>, 0),
  T(0, Start, {}, <<Also("setCustomData"), YesNo>>, 2),
  T(0, Start, {}, <<Also("setCustomData"), Menu>>, 3),
  T(0, Start, {}, <<Also("setCustomData"), Menu>>, 4),
  T(0, Start, {}, <<Also("setCustomData"), Ok, SafeDispose>>, 0),
  T(0, Start, {}, <<Also("setCustomData"), Menu>>, 5),
  T(0, Start, {}, <<YesNo>>, 2),
  T(0, Start, {}, <<Menu>>, 3),
  T(0, Start, {}, <<Menu>>, 4),
  T(0, Start, {}, <<Ok, SafeDispose>>, 0),
  T(0, Start, {}, <<Menu>>, 5) }

\* lines 112 to 261 of 9270047.js
npc_9270047b == {
  T(0, Start, {}, <<Also("setCustomData"), Ok, SafeDispose>>, 0),
  T(0, Start, {}, <<Ok, SafeDispose>>, 0),
  T(1, Yes, {}, <<Also("warp"), Dispose>>, 0),
  T(1, Yes, {}, <<Also("setProperty"), Also("warp"), Dispose>>, 0),
  T(1, No, {}, <<Dispose>>, 0),
  T(2, Yes, {}, <<Ok, Dispose>>, 0),
  T(2, Yes, {}, <<Also("registerSquad"), Ok, Also("setBossLog"), Dispose>>, 0),
  T(2, Yes, {}, <<Also("registerSquad"), Ok, Dispose>>, 0),
  T(2, No, {}, <<Dispose>>, 0),
  T(3, Yes, {}, <<Say, Dispose>>, 0),
  T(3, Yes, {}, <<Ok, Dispose>>, 0),
  T(3, Yes, {}, <<Menu>>, 6),
  T(3, Yes, {}, <<Menu>>, 7),
  T(3, Yes, {}, <<Say>>, 8),
  T(3, Yes, {}, <<Also("startInstance"), Dispose>>, 0),
  T(4, Yes, {}, <<Ok, Dispose>>, 0),
  T(4, Yes, {}, <<Also("addMember"), Ok, Dispose>>, 0),
  T(4, Yes, {}, <<Also("addMember"), Also("setBossLog"), Ok, Dispose>>, 0),
  T(4, Yes, {}, <<Say, Dispose>>, 0),
  T(5, Yes, {}, <<Dispose>>, 0),
  T(5, Yes, {}, <<Also("registerPlayer"), Dispose>>, 0),
  T(6, Yes, {}, <<Also("banMember"), Dispose>>, 0),
  T(7, Yes, {}, <<Dispose>>, 0),
  T(7, Yes, {}, <<Also("acceptMember"), Dispose>>, 0),
  T(8, Yes, {}, <<Dispose>>, 0) }

npc_9270048_1 == {
  T(0, Start, {}, <<Menu>>, 1),
  T(1, Yes, {}, <<Ok, Dispose>>, 0),
  T(1, Yes, {Room(4, 1)}, <<Also("executeUpdate"), Give(3994720, 1), Ok, Dispose>>, 0) }

NpcScripts90Table == [
  npc_9000001 |-> npc_9000001, npc_9000018 |-> npc_9000018a \cup npc_9000018b, npc_9000021 |-> npc_9000021,
  npc_9000038 |-> npc_9000038a \cup npc_9000038b, npc_9000039 |-> npc_9000039, npc_9000085 |-> npc_9000085,
  npc_9001000 |-> npc_9001000, npc_9001008 |-> npc_9001008a \cup npc_9001008b, npc_9001105 |-> npc_9001105,
  npc_9010009 |-> npc_9010009, npc_9010009_3 |-> npc_9010009_3,
  npc_9010009_55 |-> npc_9010009_55a \cup npc_9010009_55b \cup npc_9010009_55c,
  npc_9020000 |-> npc_9020000a \cup npc_9020000b, npc_9030000 |-> npc_9030000, npc_9040000 |-> npc_9040000,
  npc_9040004 |-> npc_9040004a \cup npc_9040004b \cup npc_9040004c, npc_9040008 |-> npc_9040008,
  npc_9100001 |-> npc_9100001a \cup npc_9100001b \cup npc_9100001c \cup npc_9100001d \cup npc_9100001e \cup npc_9100001f \cup npc_9100001g \cup npc_9100001h \cup npc_9100001i \cup npc_9100001j \cup npc_9100001k \cup npc_9100001l \cup npc_9100001m \cup npc_9100001n,
  npc_9100106 |-> npc_9100106, npc_9100200 |-> npc_9100200, npc_9100201 |-> npc_9100201,
  npc_9100202 |-> npc_9100202, npc_9100204 |-> npc_9100204, npc_9103001 |-> npc_9103001,
  npc_9105004 |-> npc_9105004, npc_9120010 |-> npc_9120010, npc_9120026 |-> npc_9120026,
  npc_9120036 |-> npc_9120036, npc_9120037 |-> npc_9120037, npc_9120039 |-> npc_9120039,
  npc_9120040 |-> npc_9120040, npc_9120050 |-> npc_9120050, npc_9120052 |-> npc_9120052,
  npc_9120053 |-> npc_9120053, npc_9201113 |-> npc_9201113, npc_9209000 |-> npc_9209000,
  npc_9209001_2 |-> npc_9209001_2a \cup npc_9209001_2b, npc_9209001_3 |-> npc_9209001_3a \cup npc_9209001_3b,
  npc_9209001_4 |-> npc_9209001_4a \cup npc_9209001_4b \cup npc_9209001_4c,
  npc_9209001_5 |-> npc_9209001_5a \cup npc_9209001_5b, npc_9209001_6 |-> npc_9209001_6,
  npc_9209001_7 |-> npc_9209001_7a \cup npc_9209001_7b \cup npc_9209001_7c, npc_9209001_10 |-> npc_9209001_10,
  npc_9209001_20 |-> npc_9209001_20, npc_9209001_522 |-> npc_9209001_522, npc_9220034 |-> npc_9220034,
  npc_9250022 |-> npc_9250022, npc_9270047 |-> npc_9270047a \cup npc_9270047b, npc_9270048_1 |-> npc_9270048_1 ]
================================================================================
