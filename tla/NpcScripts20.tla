----------------------------- MODULE NpcScripts20 ------------------------------
(* Tables of the scripts of NPCs 20xxxxx to 25xxxxx. *)
EXTENDS ScriptTables

npc_2001004 == {
  T(0, Start, {}, <<Menu>>, 1),
  T(1, Yes, {}, <<YesNo>>, 2),
  T(1, Yes, {}, <<YesNo>>, 3),
  T(1, Yes, {}, <<YesNo>>, 4),
  T(1, Yes, {}, <<YesNo>>, 5),
  T(1, Yes, {}, <<YesNo>>, 6),
  T(2, Both, {}, <<Ok, Dispose>>, 0),
  T(2, Yes, {Rich(5000000)}, <<Pay(5000000), Also("spawnMobOnMap"), Also("setBossLog"), Dispose>>, 0),
  T(3, Both, {}, <<Ok, Dispose>>, 0),
  T(3, Yes, {}, <<Also("gainNX"), Also("spawnMobOnMap"), Also("setBossLog"), Dispose>>, 0),
  T(4, Yes, {}, <<Ok, Ok, Dispose>>, 0),
  T(4, Yes, {}, <<Give(2460005, 1), Give(4000487, 3), Give(4000463, 10), Also("setBossLog"), Dispose>>, 0),
  T(4, Both, {}, <<Ok, Dispose>>, 0),
  T(4, Yes, {}, <<Ok, Ok, Ok, Dispose>>, 0),
  T(4, Yes, {}, <<Ok, Give(2460005, 1), Give(4000487, 3), Give(4000463, 10), Also("setBossLog"), Dispose>>, 0),
  T(5, Yes, {}, <<Ok, Ok, Dispose>>, 0),
  T(5, Yes, {}, <<Give(4000487, 3), Give(4310045, 2), Give(2022466, 1), Give(2460005, 3), Give(4000463, 20),
      Also("setBossLog"), Dispose>>, 0),
  T(5, Both, {}, <<Ok, Dispose>>, 0),
  T(5, Yes, {}, <<Ok, Ok, Ok, Dispose>>, 0),
  T(5, Yes, {}, <<Ok, Give(4000487, 3), Give(4310045, 2), Give(2022466, 1), Give(2460005, 3), Give(4000463,
      20), Also("setBossLog"), Dispose>>, 0),
  T(6, Yes, {}, <<Also("warp"), Dispose>>, 0),
  T(6, No, {}, <<Ok, Dispose>>, 0) }

npc_2010009_2 == {
  T(0, Start, {}, <<Ok, Dispose>>, 0),
  T(0, Start, {}, <<Menu>>, 1),
  T(1, Yes, {}, <<Ok, Dispose>>, 0),
  T(1, Yes, {Has(4000001, 100)}, <<Take(4000001, 100), Give(4001266, 1), Also("gainGP"), Also("setBossLog"),
      Ok, Dispose>>, 0),
  T(1, Yes, {Has(4000273, 100)}, <<Take(4000273, 100), Give(4001266, 1), Also("setBossLog"), Ok, Dispose>>, 0),
  T(1, Yes, {Has(4000406, 100)}, <<Take(4000406, 100), Give(4001266, 1), Also("setBossLog"), Ok, Dispose>>, 0) }

\* lines 7 to 134 of 2013000.js
npc_2013000a == {
  T(0, Start, {}, <<Ok, Dispose>>, 0),
  T(0, Start, {}, <<Menu>>, 1),
  T(1, Yes, {}, <<TakeAll(4001044), TakeAll(4001045), TakeAll(4001046), TakeAll(4001047), TakeAll(4001048),
      TakeAll(4001049), TakeAll(4001050), TakeAll(4001051), TakeAll(4001052), TakeAll(4001053),
      TakeAll(4001054), TakeAll(4001055), TakeAll(4001056), TakeAll(4001057), TakeAll(4001058),
      TakeAll(4001059), TakeAll(4001060), TakeAll(4001061), TakeAll(4001062), TakeAll(4001063), Say,
      Dispose>>, 0),
  T(1, Yes, {}, <<TakeAll(4001044), TakeAll(4001045), TakeAll(4001046), TakeAll(4001047), TakeAll(4001048),
      TakeAll(4001049), TakeAll(4001050), TakeAll(4001051), TakeAll(4001052), TakeAll(4001053),
      TakeAll(4001054), TakeAll(4001055), TakeAll(4001056), TakeAll(4001057), TakeAll(4001058),
      TakeAll(4001059), TakeAll(4001060), TakeAll(4001061), TakeAll(4001062), TakeAll(4001063), Ok,
      Dispose>>, 0),
  T(1, Yes, {}, <<TakeAll(4001044), TakeAll(4001045), TakeAll(4001046), TakeAll(4001047), TakeAll(4001048),
      TakeAll(4001049), TakeAll(4001050), TakeAll(4001051), TakeAll(4001052), TakeAll(4001053),
      TakeAll(4001054), TakeAll(4001055), TakeAll(4001056), TakeAll(4001057), TakeAll(4001058),
      TakeAll(4001059), TakeAll(4001060), TakeAll(4001061), TakeAll(4001062), TakeAll(4001063),
      Also("startInstance"), Also("setPartyBosslog"), Dispose>>, 0),
  T(1, Yes, {}, <<Dispose, OpenNpc>>, 0),
  T(2, Yes, {}, <<Ok, Dispose>>, 0),
  T(2, Yes, {}, <<Menu>>, 1) }

\* lines 135 to 267 of 2013000.js
npc_2013000b == {
  T(1, Yes, {}, <<TakeAll(4001044), TakeAll(4001045), TakeAll(4001046), TakeAll(4001047), TakeAll(4001048),
      TakeAll(4001049), TakeAll(4001050), TakeAll(4001051), TakeAll(4001052), TakeAll(4001053),
      TakeAll(4001054), TakeAll(4001055), TakeAll(4001056), TakeAll(4001057), TakeAll(4001058),
      TakeAll(4001059), TakeAll(4001060), TakeAll(4001061), TakeAll(4001062), TakeAll(4001063), Say,
      Dispose>>, 0),
  T(1, Yes, {}, <<Ok, Dispose>>, 0),
  T(1, Yes, {Room(1, 1)}, <<Also("setCustomData"), Also("saveToDB"), Also("setOneTimeLog"), Give(1112915, 1),
      Ok>>, 2),
  T(1, Yes, {Room(1, 1)}, <<Ok>>, 2) }

npc_2013001 == {
  T(0, Start, {}, <<TakeAll(4001044), TakeAll(4001045), TakeAll(4001046), TakeAll(4001047), TakeAll(4001048),
      TakeAll(4001049), TakeAll(4001050), TakeAll(4001051), TakeAll(4001052), TakeAll(4001053),
      TakeAll(4001054), TakeAll(4001055), TakeAll(4001056), TakeAll(4001057), TakeAll(4001058),
      TakeAll(4001059), TakeAll(4001060), TakeAll(4001061), TakeAll(4001062), TakeAll(4001063), Also("warp"),
      Dispose>>, 0),
  T(0, Start, {}, <<Ok, Dispose>>, 0),
  T(0, Start, {Has(4001063, 20)}, <<Also("givePartyExp"), Take(4001063, 20), Also("setProperty"),
      Also("warpParty"), Dispose>>, 0),
  T(0, Start, {}, <<Say, Dispose>>, 0),
  T(0, Start, {}, <<Also("warpParty"), Dispose>>, 0),
  T(0, Start, {Has(4001050, 15)}, <<TakeAll(4001050), Give(4001044, 1), Also("givePartyExp"), Dispose>>, 0),
  T(0, Start, {Has(4001051, 15)}, <<TakeAll(4001051), Give(4001045, 1), Also("givePartyExp"), Dispose>>, 0),
  T(0, Start, {Room(4, 1)}, <<Give(4001046, 1), Also("setProperty"), Dispose>>, 0),
  T(0, Start, {Room(4, 1)}, <<Give(4001047, 1), Also("givePartyExp"), Also("setProperty"), Dispose>>, 0),
  T(0, Start, {Lacks(4001052, 40)}, <<TakeAll(4001052), Give(4001048, 1), Dispose>>, 0),
  T(0, Start, {Room(4, 1)}, <<Give(4001049, 1), Also("givePartyExp"), Also("setProperty"), Dispose>>, 0),
  T(0, Start, {}, <<Dispose>>, 0) }

npc_2020008 == {
  T(0, Start, {}, <<Ok, Ok, Dispose>>, 0),
  T(0, Start, {Has(4031057, 1)}, <<Ok, Say>>, 1),
  T(0, Start, {Lacks(4031057, 1)}, <<Ok, Also("warp"), Ok, Dispose>>, 0),
  T(0, Start, {}, <<Also("startInstance"), Ok, Dispose>>, 0),
  T(0, Start, {Has(4031057, 1)}, <<Also("startInstance"), Say>>, 1),
  T(0, Start, {Lacks(4031057, 1)}, <<Also("startInstance"), Also("warp"), Ok, Dispose>>, 0),
  T(0, Start, {}, <<Ok, Also("teachSkill"), Ok, Dispose>>, 0),
  T(0, Start, {}, <<Ok, Dispose>>, 0),
  T(0, Start, {Has(4031057, 1)}, <<Say>>, 1),
  T(0, Start, {Lacks(4031057, 1)}, <<Also("warp"), Ok, Dispose>>, 0),
  T(1, Yes, {Has(4031058, 1)}, <<Also("changeJob"), Take(4031057, 1), Take(4031058, 1), Ok, Dispose>>, 0),
  T(1, Yes, {Has(4031058, 1)}, <<>>, 0),
  T(1, Yes, {Lacks(4031058, 1)}, <<Accept>>, 2),
  T(2, Yes, {Has(4031057, 1)}, <<Ok, Dispose>>, 0),
  T(2, Yes, {Lacks(4031057, 1)}, <<>>, 0),
  T(2, No, {}, <<Ok, Dispose>>, 0) }

npc_2020009 == {
  T(0, Start, {}, <<Ok, Dispose>>, 0),
  T(0, Start, {Has(4031057, 1)}, <<Say>>, 1),
  T(0, Start, {Lacks(4031057, 1)}, <<Also("warp"), Ok, Dispose>>, 0),
  T(1, Yes, {Has(4031058, 1)}, <<Also("changeJob"), Take(4031057, 1), Take(4031058, 1), Ok, Dispose>>, 0),
  T(1, Yes, {Has(4031058, 1)}, <<>>, 0),
  T(1, Yes, {Lacks(4031058, 1)}, <<Accept>>, 2),
  T(2, Yes, {Has(4031057, 1)}, <<Ok, Dispose>>, 0),
  T(2, Yes, {Lacks(4031057, 1)}, <<>>, 0),
  T(2, No, {}, <<Ok, Dispose>>, 0) }

npc_2022003 == {
  T(0, Start, {}, <<Menu>>, 1),
  T(1, Yes, {}, <<Also("warp"), Dispose>>, 0),
  T(1, Yes, {}, <<Ok, Dispose>>, 0),
  T(1, Yes, {}, <<Also("startInstance"), Dispose>>, 0),
  T(1, Yes, {Has(1032078, 1), Has(4001530, 20), Room(1, 1)}, <<Fail>>, 0),
  T(1, Yes, {Has(1032079, 1), Has(4001530, 20), Room(1, 1)}, <<Fail>>, 0),
  T(1, Yes, {Has(1032077, 1), Has(4001530, 20), Room(1, 1)}, <<Fail>>, 0) }

npc_2030006 == {
  T(0, Start, {Has(4031058, 1)}, <<Ok, Dispose>>, 0),
  T(0, Start, {Lacks(4031058, 1)}, <<Say>>, 1),
  T(1, Yes, {}, <<NextPrev>>, 2),
  T(2, Yes, {Has(4005004, 1)}, <<Take(4005004, 1), Menu>>, 3),
  T(2, Yes, {Lacks(4005004, 1)}, <<Ok, Dispose>>, 0),
  T(2, No, {}, <<Ok, Dispose>>, 0),
  T(3, Yes, {}, <<Ok>>, 4),
  T(3, Yes, {}, <<Ok, Dispose>>, 0),
  T(4, Yes, {}, <<Menu>>, 5),
  T(5, Yes, {}, <<Ok>>, 6),
  T(5, Yes, {}, <<Ok, Dispose>>, 0),
  T(6, Yes, {}, <<Menu>>, 7),
  T(7, Yes, {}, <<Ok>>, 8),
  T(7, Yes, {}, <<Ok, Dispose>>, 0),
  T(8, Yes, {}, <<Menu>>, 9),
  T(9, Yes, {}, <<Ok>>, 10),
  T(9, Yes, {}, <<Ok, Dispose>>, 0),
  T(10, Yes, {}, <<Menu>>, 11),
  T(11, Yes, {}, <<Give(4031058, 1), Ok, Dispose>>, 0),
  T(11, Yes, {}, <<Ok, Dispose>>, 0) }

\* lines 6 to 158 of 2030013.js
npc_2030013a == {
  T(0, Start, {}, <<Menu>>, 1),
  T(0, Start, {}, <<Ok, SafeDispose>>, 0),
  T(0, Start, {}, <<Also("setCustomData"), YesNo>>, 2),
  T(0, Start, {}, <<Also("setCustomData"), Menu>>, 3),
  T(0, Start, {}, <<Also("setCustomData"), Menu>>, 4),
  T(0, Start, {}, <<Also("setCustomData"), Ok, SafeDispose>>, 0),
  T(0, Start, {}, <<Also("setCustomData"), Menu>>, 5),
  T(0, Start, {}, <<YesNo>>, 2),
  T(0, Start, {}, <<Menu>>, 3),
  T(0, Start, {}, <<Menu>>, 4),
  T(0, Start, {}, <<Menu>>, 5),
  T(0, Start, {}, <<Ok, Dispose>>, 0),
  T(1, Yes, {}, <<Also("warp"), Dispose>>, 0),
  T(1, Yes, {}, <<Ok, SafeDispose>>, 0),
  T(1, Yes, {}, <<Also("setCustomData"), YesNo>>, 2),
  T(1, Yes, {}, <<Also("setCustomData"), Menu>>, 3),
  T(1, Yes, {}, <<Also("setCustomData"), Menu>>, 4),
  T(1, Yes, {}, <<Also("setCustomData"), Ok, SafeDispose>>, 0),
  T(1, Yes, {}, <<Also("setCustomData"), Menu>>, 5),
  T(1, Yes, {}, <<YesNo>>, 2),
  T(1, Yes, {}, <<Menu>>, 3),
  T(1, Yes, {}, <<Menu>>, 4),
  T(1, Yes, {}, <<Menu>>, 5),
  T(1, Yes, {}, <<Ok, Dispose>>, 0),
  T(2, Both, {}, <<Dispose>>, 0),
  T(2, Yes, {}, <<Ok, Dispose>>, 0),
  T(2, Yes, {}, <<Also("registerSquad"), Ok, Also("setBossLog"), SafeDispose>>, 0),
  T(2, Yes, {}, <<Also("registerSquad"), Ok, SafeDispose>>, 0),
  T(2, No, {}, <<Ok, SafeDispose>>, 0),
  T(3, Yes, {}, <<Menu>>, 6),
  T(4, Yes, {}, <<Menu>>, 10),
  T(5, Yes, {}, <<Menu>>, 11),
  T(6, Yes, {}, <<Also("warp"), Dispose>>, 0),
  T(7, Yes, {}, <<Dispose>>, 0),
  T(7, Yes, {}, <<Also("warp"), Dispose>>, 0),
  T(7, Yes, {}, <<Menu>>, 12),
  T(8, Yes, {}, <<Dispose>>, 0),
  T(8, Yes, {}, <<Also("warp"), Dispose>>, 0),
  T(8, Yes, {}, <<Menu>>, 13),
  T(9, Yes, {}, <<Dispose>>, 0),
  T(10, Yes, {}, <<Also("warp"), Dispose>>, 0),
  T(11, Yes, {}, <<Also("warp"), Dispose>>, 0),
  T(12, Yes, {}, <<Also("warp"), Dispose>>, 0),
  T(13, Yes, {}, <<Also("warp"), Dispose>>, 0) }

\* lines 159 to 318 of 2030013.js
npc_2030013b == {
  T(0, Start, {}, <<Ok, SafeDispose>>, 0),
  T(0, Start, {}, <<Also("setCustomData"), YesNo>>, 2),
  T(0, Start, {}, <<Also("setCustomData"), Menu>>, 3),
  T(0, Start, {}, <<Also("setCustomData"), Menu>>, 4),
  T(0, Start, {}, <<Also("setCustomData"), Ok, SafeDispose>>, 0),
  T(0, Start, {}, <<Also("setCustomData"), Menu>>, 5),
  T(0, Start, {}, <<YesNo>>, 2),
  T(0, Start, {}, <<Menu>>, 4),
  T(0, Start, {}, <<Ok, Dispose>>, 0),
  T(1, Yes, {}, <<Ok, SafeDispose>>, 0),
  T(1, Yes, {}, <<Also("setCustomData"), YesNo>>, 2),
  T(1, Yes, {}, <<Also("setCustomData"), Menu>>, 3),
  T(1, Yes, {}, <<Also("setCustomData"), Menu>>, 4),
  T(1, Yes, {}, <<Also("setCustomData"), Ok, SafeDispose>>, 0),
  T(1, Yes, {}, <<Also("setCustomData"), Menu>>, 5),
  T(1, Yes, {}, <<YesNo>>, 2),
  T(1, Yes, {}, <<Menu>>, 4),
  T(1, Yes, {}, <<Ok, Dispose>>, 0),
  T(3, Yes, {}, <<Say, SafeDispose>>, 0),
  T(3, Yes, {}, <<Ok, SafeDispose>>, 0),
  T(3, Yes, {}, <<Menu>>, 7),
  T(3, Yes, {}, <<Menu>>, 8),
  T(3, Yes, {}, <<Say>>, 9),
  T(3, Yes, {}, <<Also("startInstance"), Dispose>>, 0),
  T(4, Yes, {}, <<Say, Dispose>>, 0),
  T(4, Yes, {}, <<Ok, SafeDispose>>, 0),
  T(4, Yes, {}, <<Also("addMember"), Ok, SafeDispose>>, 0),
  T(4, Yes, {}, <<Also("addMember"), Ok, Dispose>>, 0),
  T(4, Yes, {}, <<Also("addMember"), Also("setBossLog"), Ok, SafeDispose>>, 0),
  T(5, Yes, {}, <<Dispose>>, 0),
  T(5, Yes, {}, <<Also("registerPlayer"), Dispose>>, 0),
  T(6, Yes, {}, <<>>, 0),
  T(7, Yes, {}, <<Also("banMember"), Dispose>>, 0),
  T(8, Yes, {}, <<Dispose>>, 0),
  T(8, Yes, {}, <<Also("acceptMember"), Dispose>>, 0),
  T(9, Yes, {}, <<Dispose>>, 0),
  T(10, Yes, {}, <<Also("addMember"), Ok, SafeDispose>>, 0),
  T(11, Yes, {}, <<Dispose>>, 0),
  T(12, Yes, {}, <<Also("banMember"), Dispose>>, 0),
  T(13, Yes, {}, <<Also("acceptMember"), Dispose>>, 0) }

\* lines 319 to 516 of 2030013.js
npc_2030013c == {
  T(0, Start, {}, <<Ok, SafeDispose>>, 0),
  T(0, Start, {}, <<Also("setCustomData"), Menu>>, 3),
  T(0, Start, {}, <<Also("setCustomData"), Menu>>, 4),
  T(0, Start, {}, <<Also("setCustomData"), Ok, SafeDispose>>, 0),
  T(0, Start, {}, <<Also("setCustomData"), Menu>>, 5),
  T(0, Start, {}, <<Menu>>, 3),
  T(0, Start, {}, <<Menu>>, 4),
  T(0, Start, {}, <<Menu>>, 5),
  T(1, Yes, {}, <<Ok, SafeDispose>>, 0),
  T(1, Yes, {}, <<Also("setCustomData"), Menu>>, 3),
  T(1, Yes, {}, <<Also("setCustomData"), Menu>>, 4),
  T(1, Yes, {}, <<Also("setCustomData"), Ok, SafeDispose>>, 0),
  T(1, Yes, {}, <<Also("setCustomData"), Menu>>, 5),
  T(1, Yes, {}, <<Menu>>, 3),
  T(1, Yes, {}, <<Menu>>, 4),
  T(1, Yes, {}, <<Menu>>, 5),
  T(2, Yes, {}, <<Ok, Dispose>>, 0),
  T(2, Yes, {}, <<Also("registerSquad"), Ok, Also("setBossLog"), SafeDispose>>, 0),
  T(2, Yes, {}, <<Also("registerSquad"), Ok, SafeDispose>>, 0),
  T(2, No, {}, <<Ok, SafeDispose>>, 0),
  T(3, Yes, {}, <<Say, SafeDispose>>, 0),
  T(3, Yes, {}, <<Ok, SafeDispose>>, 0),
  T(3, Yes, {}, <<Menu>>, 7),
  T(3, Yes, {}, <<Menu>>, 8),
  T(3, Yes, {}, <<Say>>, 9),
  T(3, Yes, {}, <<Also("startInstance"), Dispose>>, 0),
  T(4, Yes, {}, <<Say, Dispose>>, 0),
  T(4, Yes, {}, <<Ok, SafeDispose>>, 0),
  T(4, Yes, {}, <<Also("addMember"), Ok, SafeDispose>>, 0),
  T(4, Yes, {}, <<Also("addMember"), Ok, Dispose>>, 0),
  T(4, Yes, {}, <<Also("addMember"), Also("setBossLog"), Ok, SafeDispose>>, 0),
  T(5, Yes, {}, <<Dispose>>, 0),
  T(5, Yes, {}, <<Also("registerPlayer"), Dispose>>, 0),
  T(6, Yes, {}, <<>>, 0),
  T(7, Yes, {}, <<Also("banMember"), Dispose>>, 0),
  T(8, Yes, {}, <<Dispose>>, 0),
  T(8, Yes, {}, <<Also("acceptMember"), Dispose>>, 0),
  T(9, Yes, {}, <<Dispose>>, 0),
  T(10, Yes, {}, <<Also("addMember"), Ok, SafeDispose>>, 0),
  T(11, Yes, {}, <<Dispose>>, 0),
  T(12, Yes, {}, <<Also("banMember"), Dispose>>, 0),
  T(13, Yes, {}, <<Also("acceptMember"), Dispose>>, 0) }

\* lines 6 to 131 of 2030013_1.js
npc_2030013_1a == {
  T(0, Start, {}, <<>>, 0),
  T(0, Start, {}, <<Ok, SafeDispose>>, 0),
  T(0, Start, {}, <<Also("setCustomData"), Ok, SafeDispose>>, 0),
  T(0, Start, {}, <<Also("setCustomData"), Menu>>, 1),
  T(0, Start, {}, <<Also("setCustomData"), Menu>>, 2),
  T(0, Start, {}, <<Also("setCustomData"), Menu>>, 3),
  T(0, Start, {}, <<Also("setCustomData"), Ok, Dispose>>, 0),
  T(0, Start, {Rich(10000000)}, <<Also("setCustomData"), Also("setBossLog"), Pay(1000000), Menu>>, 3),
  T(0, Start, {}, <<Menu>>, 1),
  T(0, Start, {}, <<Menu>>, 2),
  T(0, Start, {}, <<Menu>>, 3),
  T(0, Start, {}, <<Ok, Dispose>>, 0),
  T(0, Start, {Rich(10000000)}, <<Also("setBossLog"), Pay(1000000), Menu>>, 3),
  T(1, Yes, {}, <<>>, 0),
  T(2, Yes, {}, <<>>, 0),
  T(3, Yes, {}, <<>>, 0),
  T(4, Yes, {}, <<>>, 0),
  T(5, Yes, {}, <<>>, 0),
  T(6, Yes, {}, <<>>, 0) }

\* lines 132 to 269 of 2030013_1.js
npc_2030013_1b == {
  T(0, Start, {}, <<Ok, SafeDispose>>, 0),
  T(0, Start, {}, <<Also("setCustomData"), Ok, SafeDispose>>, 0),
  T(1, Yes, {}, <<Say, SafeDispose>>, 0),
  T(1, Yes, {}, <<Ok, SafeDispose>>, 0),
  T(1, Yes, {}, <<Menu>>, 4),
  T(1, Yes, {}, <<Menu>>, 5),
  T(1, Yes, {}, <<Say>>, 6),
  T(1, Yes, {}, <<Also("startInstance"), Dispose>>, 0),
  T(2, Yes, {}, <<Say, Dispose>>, 0),
  T(2, Yes, {}, <<Ok, SafeDispose>>, 0),
  T(2, Yes, {}, <<Also("addMember"), Ok, SafeDispose>>, 0),
  T(2, Yes, {}, <<Also("addMember"), Ok, Dispose>>, 0),
  T(2, Yes, {}, <<Also("addMember"), Also("setBossLog"), Ok, SafeDispose>>, 0),
  T(3, Yes, {}, <<Dispose>>, 0),
  T(3, Yes, {}, <<Also("registerPlayer"), Dispose>>, 0),
  T(4, Yes, {}, <<Also("banMember"), Dispose>>, 0),
  T(5, Yes, {}, <<Dispose>>, 0),
  T(5, Yes, {}, <<Also("acceptMember"), Dispose>>, 0),
  T(6, Yes, {}, <<Dispose>>, 0) }

\* lines 13 to 155 of 2040016.js
npc_2040016a == {
  T(0, Start, {}, <<Menu>>, 1),
  T(1, Yes, {}, <<Number>>, 2),
  T(1, Yes, {}, <<Number>>, 3),
  T(1, Yes, {}, <<Number>>, 4),
  T(1, Yes, {}, <<Number>>, 5),
  T(1, Yes, {}, <<Number>>, 6),
  T(1, Yes, {}, <<Number>>, 7),
  T(1, Yes, {}, <<Number>>, 8),
  T(2, No, {}, <<Dispose>>, 0),
  T(3, No, {}, <<Dispose>>, 0),
  T(4, No, {}, <<Dispose>>, 0),
  T(5, No, {}, <<Dispose>>, 0),
  T(6, No, {}, <<Dispose>>, 0),
  T(7, No, {}, <<Dispose>>, 0),
  T(8, No, {}, <<Dispose>>, 0),
  T(9, No, {}, <<Dispose>>, 0),
  T(10, No, {}, <<Dispose>>, 0),
  T(11, No, {}, <<Dispose>>, 0),
  T(12, No, {}, <<Dispose>>, 0),
  T(13, No, {}, <<Dispose>>, 0),
  T(14, No, {}, <<Dispose>>, 0),
  T(15, No, {}, <<Dispose>>, 0) }

\* lines 156 to 246 of 2040016.js
npc_2040016b == {
  T(2, Yes, {}, <<YesNo>>, 9),
  T(2, Yes, {}, <<Ok, Dispose>>, 0),
  T(3, Yes, {}, <<YesNo>>, 10),
  T(3, Yes, {}, <<Ok, Dispose>>, 0),
  T(4, Yes, {}, <<YesNo>>, 11),
  T(4, Yes, {}, <<Ok, Dispose>>, 0),
  T(5, Yes, {}, <<YesNo>>, 12),
  T(5, Yes, {}, <<Ok, Dispose>>, 0),
  T(6, Yes, {}, <<YesNo>>, 13),
  T(6, Yes, {}, <<Ok, Dispose>>, 0),
  T(7, Yes, {}, <<YesNo>>, 14),
  T(7, Yes, {}, <<Ok, Dispose>>, 0),
  T(8, Yes, {}, <<YesNo>>, 15),
  T(8, Yes, {}, <<Ok, Dispose>>, 0),
  T(9, Yes, {}, <<Say, Dispose>>, 0),
  T(9, Yes, {}, <<Take(4010000, Some), Pay(Some), Give(4011000, Some), Ok, SafeDispose>>, 0),
  T(9, Yes, {}, <<Ok, SafeDispose>>, 0),
  T(10, Yes, {}, <<Say, Dispose>>, 0),
  T(10, Yes, {}, <<Take(4010001, Some), Pay(Some), Give(4011001, Some), Ok, SafeDispose>>, 0),
  T(10, Yes, {}, <<Ok, SafeDispose>>, 0),
  T(11, Yes, {}, <<Say, Dispose>>, 0),
  T(11, Yes, {}, <<Take(4010002, Some), Pay(Some), Give(4011002, Some), Ok, SafeDispose>>, 0),
  T(11, Yes, {}, <<Ok, SafeDispose>>, 0),
  T(12, Yes, {}, <<Say, Dispose>>, 0),
  T(12, Yes, {}, <<Take(4010003, Some), Pay(Some), Give(4011003, Some), Ok, SafeDispose>>, 0),
  T(12, Yes, {}, <<Ok, SafeDispose>>, 0),
  T(13, Yes, {}, <<Say, Dispose>>, 0),
  T(13, Yes, {}, <<Take(4010004, Some), Pay(Some), Give(4011004, Some), Ok, SafeDispose>>, 0),
  T(13, Yes, {}, <<Ok, SafeDispose>>, 0),
  T(14, Yes, {}, <<Say, Dispose>>, 0),
  T(14, Yes, {}, <<Take(4010005, Some), Pay(Some), Give(4011005, Some), Ok, SafeDispose>>, 0),
  T(14, Yes, {}, <<Ok, SafeDispose>>, 0),
  T(15, Yes, {}, <<Say, Dispose>>, 0),
  T(15, Yes, {}, <<Take(4010006, Some), Pay(Some), Give(4011006, Some), Ok, SafeDispose>>, 0),
  T(15, Yes, {}, <<Ok, SafeDispose>>, 0) }

npc_2040030 == {
  T(0, Start, {}, <<Say>>, 1),
  T(1, Yes, {}, <<Menu>>, 2),
  T(2, Yes, {}, <<Say>>, 3),
  T(2, Yes, {}, <<Say>>, 4),
  T(2, Yes, {}, <<Say, Dispose>>, 0),
  T(2, Yes, {}, <<Say>>, 5),
  T(3, Yes, {}, <<NextPrev, Dispose>>, 0),
  T(4, Yes, {}, <<NextPrev>>, 6),
  T(5, Yes, {}, <<YesNo>>, 7),
  T(6, Yes, {}, <<NextPrev>>, 8),
  T(6, No, {}, <<Say>>, 4),
  T(7, Yes, {Rich(250000)}, <<Pay(250000), Give(4160011, 1), SafeDispose>>, 0),
  T(7, Yes, {Poor(250000)}, <<Ok, SafeDispose>>, 0),
  T(7, No, {}, <<Dispose>>, 0),
  T(8, Yes, {}, <<Say, SafeDispose>>, 0),
  T(8, No, {}, <<NextPrev>>, 6) }

\* lines 7 to 147 of 2040034.js
npc_2040034a == {
  T(0, Start, {}, <<Menu>>, 1),
  T(1, Yes, {}, <<TakeAll(4001022), TakeAll(4001023), Say, Dispose>>, 0),
  T(1, Yes, {}, <<TakeAll(4001022), TakeAll(4001023), Ok, Dispose>>, 0),
  T(1, Yes, {}, <<TakeAll(4001022), TakeAll(4001023), Also("startInstance"), Also("resetFully"),
      Also("setPartyBosslog"), TakeAll(4001022), TakeAll(4001023), Dispose>>, 0),
  T(2, Yes, {}, <<Menu>>, 1) }

\* lines 148 to 288 of 2040034.js
npc_2040034b == {
  T(1, Yes, {}, <<TakeAll(4001022), TakeAll(4001023), Say, Dispose>>, 0),
  T(1, Yes, {}, <<TakeAll(4001022), TakeAll(4001023), Ok, Dispose>>, 0),
  T(1, Yes, {}, <<Ok, Dispose>>, 0),
  T(1, Yes, {Room(1, 1)}, <<Also("setCustomData"), Also("saveToDB"), Also("setOneTimeLog"), Give(1022073, 1),
      Ok>>, 2),
  T(1, Yes, {Room(1, 1)}, <<Ok>>, 2),
  T(1, Yes, {}, <<Dispose, OpenNpc>>, 0) }

npc_2041008 == {
  T(0, Start, {}, <<Menu>>, 1),
  T(0, Start, {}, <<Ok, Dispose>>, 0),
  T(1, Yes, {Has(4000265, 50), Room(0, 3)}, <<Also("setBossLog"), Take(4000265, 50), Give(4000463, 5),
      Give(4000313, 5), Also("gainExp"), Ok, Dispose>>, 0),
  T(1, Yes, {Full(0, 3), Has(4000265, 50)}, <<Ok, Dispose>>, 0),
  T(1, Yes, {Lacks(4000265, 50)}, <<Ok, Dispose>>, 0),
  T(1, Yes, {}, <<YesNo>>, 2),
  T(2, Yes, {Rich(20000)}, <<Pay(20000), Also("warp"), Dispose>>, 0),
  T(2, Yes, {Poor(20000)}, <<Ok, Dispose>>, 0),
  T(2, No, {}, <<Dispose>>, 0) }

npc_2041024_1 == {
  T(0, Start, {Has(4001084, 1)}, <<YesNo>>, 1),
  T(0, Start, {Lacks(4001084, 1)}, <<Ok, SafeDispose, Dispose>>, 0),
  T(1, Yes, {}, <<Ok, Take(4001084, 1), Give(4001322, 1), SafeDispose>>, 0),
  T(1, Yes, {Room(0, 1)}, <<Give(Some, 1), Take(4001084, 1), Ok, SafeDispose>>, 0),
  T(1, Yes, {}, <<Ok, SafeDispose>>, 0),
  T(1, No, {}, <<Ok, Dispose>>, 0) }

npc_2042002 == {
  T(0, Start, {}, <<Menu>>, 1),
  T(0, Start, {}, <<Also("endPartyQuest"), Ok>>, 2),
  T(1, Yes, {}, <<Also("warp"), Dispose>>, 0),
  T(1, Yes, {}, <<Also("saveLocation"), Also("warp"), Dispose>>, 0),
  T(1, Yes, {}, <<Ok, Dispose>>, 0),
  T(2, Yes, {}, <<Also("updateOneInfo"), Also("removeMember"), Also("gainExpR"), Also("updateOneInfo"),
      Also("warp"), Dispose>>, 0) }

npc_2042007 == {
  T(0, Start, {}, <<Also("warp"), Dispose>>, 0),
  T(0, Start, {}, <<Menu>>, 1),
  T(0, Start, {}, <<Also("endPartyQuest"), Ok>>, 2),
  T(1, Yes, {}, <<Also("warp"), Dispose>>, 0),
  T(1, Yes, {}, <<Ok, Dispose>>, 0),
  T(2, Yes, {}, <<Also("updateOneInfo"), Also("removeMember"), Also("gainExpR"), Also("updateOneInfo"),
      Also("warp"), Dispose>>, 0) }

npc_2080005 == {
  T(0, Start, {}, <<Menu>>, 1),
  T(0, Start, {}, <<Ok, Dispose>>, 0),
  T(1, Yes, {Has(4000175, 1), Has(4001084, 1), Room(0, 4)}, <<Also("setBossLog"), Take(4001084, 1),
      Take(4000175, 1), Give(2049100, 2), Give(2340000, 2), Give(4000038, 2), Give(4000463, 10),
      Give(4000313, 10), Also("gainExp"), Ok, Dispose>>, 0),
  T(1, Yes, {Full(0, 4), Has(4000175, 1), Has(4001084, 1)}, <<Ok, Dispose>>, 0),
  T(1, Yes, {Has(4001084, 1), Lacks(4000175, 1)}, <<Ok, Dispose>>, 0),
  T(1, Yes, {Lacks(4001084, 1)}, <<Ok, Dispose>>, 0) }

npc_2081005 == {
  T(0, Start, {}, <<Also("addHP"), Say>>, 1),
  T(0, Start, {}, <<Say>>, 1),
  T(0, Start, {}, <<Also("addHP"), Say>>, 2),
  T(0, Start, {}, <<Say>>, 2),
  T(1, Yes, {Has(4031454, 1)}, <<Also("warp"), Take(4031454, 1), Give(4031455, 1), Give(4031461, 1),
      Dispose>>, 0),
  T(1, Yes, {Has(4031454, 1)}, <<Also("warp"), Take(4031454, 1), Give(4031455, 1), Dispose>>, 0),
  T(1, Yes, {Lacks(4031454, 1)}, <<Also("warp"), Give(4031461, 1), Dispose>>, 0),
  T(1, Yes, {Lacks(4031454, 1)}, <<Also("warp"), Dispose>>, 0),
  T(2, Yes, {}, <<Also("warp"), Dispose>>, 0),
  T(2, Yes, {Has(5220006, 1)}, <<Take(5220006, 1), Also("setBossLog"), Also("warp"), Dispose>>, 0) }

npc_2081100 == {
  T(0, Start, {}, <<Menu>>, 1),
  T(0, Start, {}, <<Ok, Dispose>>, 0),
  T(1, Yes, {}, <<Ok, Dispose>>, 0),
  T(1, Yes, {Room(2, 1)}, <<Give(2280003, 1), Also("changeJob"), Also("teachSkill"), Say, Dispose>>, 0),
  T(1, Yes, {Room(2, 1)}, <<Give(2280003, 1)>>, 0) }

npc_2081200 == {
  T(0, Start, {}, <<Menu>>, 1),
  T(0, Start, {}, <<Ok, Dispose>>, 0),
  T(1, Yes, {}, <<Ok, Dispose>>, 0),
  T(1, Yes, {Room(2, 1)}, <<Give(2280003, 1), Also("changeJob"), Also("teachSkill"), Say, Dispose>>, 0),
  T(1, Yes, {Room(2, 1)}, <<Give(2280003, 1)>>, 0) }

npc_2083001 == {
  T(0, Start, {}, <<Ok, Dispose>>, 0),
  T(0, Start, {}, <<Say>>, 1),
  T(0, Start, {}, <<Also("startInstance"), TakeAll(4001022), TakeAll(4001023), Dispose>>, 0),
  T(0, Start, {Has(4001093, 6)}, <<Take(4001093, 6), Also("warpParty"), Dispose>>, 0),
  T(0, Start, {}, <<Say, Dispose>>, 0),
  T(1, Yes, {}, <<>>, 0) }

\* lines 6 to 206 of 2083004_1.js
npc_2083004_1a == {
  T(0, Start, {}, <<Ok, Dispose>>, 0),
  T(0, Start, {}, <<Also("setCustomData"), Ok, SafeDispose>>, 0),
  T(0, Start, {}, <<Also("setCustomData"), Menu>>, 1),
  T(0, Start, {}, <<Also("setCustomData"), Menu>>, 2),
  T(0, Start, {}, <<Also("setCustomData"), Ok, SafeDispose, Ok, SafeDispose>>, 0),
  T(0, Start, {}, <<Also("setCustomData"), Ok, SafeDispose, Menu>>, 0),
  T(0, Start, {}, <<Also("setCustomData"), Menu>>, 3),
  T(0, Start, {}, <<Also("setCustomData"), Ok, Dispose>>, 0),
  T(0, Start, {Rich(10000000)}, <<Also("setCustomData"), Also("setBossLog"), Pay(1000000), Menu>>, 3),
  T(0, Start, {}, <<Ok, SafeDispose>>, 0),
  T(0, Start, {}, <<Menu>>, 1),
  T(0, Start, {}, <<Menu>>, 2),
  T(0, Start, {}, <<Ok, SafeDispose, Ok, SafeDispose>>, 0),
  T(0, Start, {}, <<Ok, SafeDispose, Menu>>, 0),
  T(0, Start, {}, <<Menu>>, 3),
  T(0, Start, {Rich(10000000)}, <<Also("setBossLog"), Pay(1000000), Menu>>, 3),
  T(2, Yes, {}, <<Say, Dispose>>, 0),
  T(2, Yes, {}, <<Ok, Dispose>>, 0),
  T(2, Yes, {}, <<Also("addMember"), Ok, Dispose>>, 0),
  T(2, Yes, {}, <<Also("addMember"), Say, Dispose>>, 0) }

\* lines 207 to 350 of 2083004_1.js
npc_2083004_1b == {
  T(1, Yes, {}, <<Say, Dispose>>, 0),
  T(1, Yes, {}, <<Ok, Dispose>>, 0),
  T(1, Yes, {}, <<Dispose>>, 0),
  T(1, Yes, {}, <<Menu>>, 4),
  T(1, Yes, {}, <<Menu>>, 5),
  T(1, Yes, {}, <<Say>>, 6),
  T(1, Yes, {}, <<Also("startInstance"), Dispose>>, 0),
  T(1, Yes, {}, <<Also("startInstance"), Also("startSpeedRun"), Dispose>>, 0),
  T(2, Yes, {}, <<Say, Dispose>>, 0),
  T(2, Yes, {}, <<Ok, Dispose>>, 0),
  T(2, Yes, {}, <<Dispose>>, 0),
  T(2, Yes, {}, <<Also("addMember"), Ok, Dispose>>, 0),
  T(3, Yes, {}, <<Dispose>>, 0),
  T(3, Yes, {}, <<Also("registerPlayer"), Dispose>>, 0),
  T(3, Yes, {}, <<Ok, Dispose>>, 0),
  T(4, Yes, {}, <<Also("banMember"), Dispose>>, 0),
  T(4, Yes, {}, <<Dispose>>, 0),
  T(4, Yes, {}, <<Ok, Dispose>>, 0),
  T(5, Yes, {}, <<Dispose>>, 0),
  T(5, Yes, {}, <<Also("acceptMember"), Dispose>>, 0),
  T(5, Yes, {}, <<Ok, Dispose>>, 0),
  T(6, Yes, {}, <<Dispose>>, 0),
  T(6, Yes, {}, <<Ok, Dispose>>, 0) }

\* lines 6 to 126 of 2083004_10.js
npc_2083004_10a == {
  T(0, Start, {}, <<Ok, Dispose>>, 0),
  T(0, Start, {}, <<Also("setCustomData"), YesNo>>, 1),
  T(0, Start, {}, <<Also("setCustomData"), Menu>>, 2),
  T(0, Start, {}, <<Also("setCustomData"), Menu>>, 3),
  T(0, Start, {}, <<Also("setCustomData"), Ok, SafeDispose>>, 0),
  T(0, Start, {}, <<Also("setCustomData"), Ok, SafeDispose, YesNo>>, 0),
  T(0, Start, {}, <<Also("setCustomData"), Ok, SafeDispose, Menu>>, 0),
  T(0, Start, {}, <<Also("setCustomData"), Ok, SafeDispose, Ok, SafeDispose>>, 0),
  T(0, Start, {}, <<Also("setCustomData"), Menu>>, 4),
  T(0, Start, {}, <<YesNo>>, 1),
  T(0, Start, {}, <<Menu>>, 2),
  T(0, Start, {}, <<Menu>>, 3),
  T(0, Start, {}, <<Ok, SafeDispose>>, 0),
  T(0, Start, {}, <<Ok, SafeDispose, YesNo>>, 0),
  T(0, Start, {}, <<Ok, SafeDispose, Menu>>, 0),
  T(0, Start, {}, <<Ok, SafeDispose, Ok, SafeDispose>>, 0),
  T(0, Start, {}, <<Menu>>, 4) }

\* lines 127 to 271 of 2083004_10.js
npc_2083004_10b == {
  T(0, Start, {}, <<Also("setCustomData"), Ok, SafeDispose>>, 0),
  T(0, Start, {}, <<Ok, SafeDispose>>, 0),
  T(1, Yes, {}, <<Say, Dispose>>, 0) }

\* lines 272 to 392 of 2083004_10.js
npc_2083004_10c == {
  T(1, Yes, {}, <<Also("registerSquad"), Ok, Dispose>>, 0),
  T(1, No, {}, <<Dispose>>, 0),
  T(2, Yes, {}, <<Say, Dispose>>, 0),
  T(2, Yes, {}, <<Ok, Dispose>>, 0),
  T(2, Yes, {}, <<Menu>>, 5),
  T(2, Yes, {}, <<Menu>>, 6),
  T(2, Yes, {}, <<Say>>, 7),
  T(2, Yes, {}, <<Also("startInstance"), Dispose>>, 0),
  T(2, Yes, {}, <<Also("startInstance"), Also("startSpeedRun"), Dispose>>, 0),
  T(3, Yes, {}, <<Say, Dispose>>, 0),
  T(3, Yes, {}, <<Ok, Dispose>>, 0),
  T(3, Yes, {}, <<Also("addMember"), Ok, Dispose>>, 0),
  T(3, Yes, {}, <<Also("addMember"), Say, Dispose>>, 0),
  T(4, Yes, {}, <<Dispose>>, 0),
  T(4, Yes, {}, <<Also("registerPlayer"), Dispose>>, 0),
  T(5, Yes, {}, <<Also("banMember"), Dispose>>, 0),
  T(6, Yes, {}, <<Dispose>>, 0),
  T(6, Yes, {}, <<Also("acceptMember"), Dispose>>, 0),
  T(7, Yes, {}, <<Dispose>>, 0) }

\* lines 393 to 534 of 2083004_10.js
npc_2083004_10d == {
  T(1, Yes, {}, <<Say, Dispose>>, 0),
  T(1, Yes, {}, <<Also("registerSquad"), Ok, Dispose>>, 0),
  T(1, Both, {}, <<Ok, Dispose>>, 0),
  T(1, No, {}, <<Dispose>>, 0),
  T(2, Yes, {}, <<Say, Dispose>>, 0),
  T(2, Yes, {}, <<Ok, Dispose>>, 0),
  T(2, Yes, {}, <<Menu>>, 5),
  T(2, Yes, {}, <<Menu>>, 6),
  T(2, Yes, {}, <<Say>>, 7),
  T(2, Yes, {}, <<Also("startInstance"), Dispose>>, 0),
  T(2, Yes, {}, <<Also("startInstance"), Also("startSpeedRun"), Dispose>>, 0),
  T(3, Yes, {}, <<Say, Dispose>>, 0),
  T(3, Yes, {}, <<Ok, Dispose>>, 0),
  T(3, Yes, {}, <<Also("addMember"), Ok, Dispose>>, 0),
  T(3, Yes, {}, <<Also("addMember"), Say, Dispose>>, 0),
  T(4, Yes, {}, <<Dispose>>, 0),
  T(4, Yes, {}, <<Also("registerPlayer"), Dispose>>, 0),
  T(4, Yes, {}, <<Ok, Dispose>>, 0),
  T(5, Yes, {}, <<Also("banMember"), Dispose>>, 0),
  T(5, Yes, {}, <<Ok, Dispose>>, 0),
  T(6, Yes, {}, <<Dispose>>, 0),
  T(6, Yes, {}, <<Also("acceptMember"), Dispose>>, 0),
  T(6, Yes, {}, <<Ok, Dispose>>, 0),
  T(7, Yes, {}, <<Dispose>>, 0),
  T(7, Yes, {}, <<Ok, Dispose>>, 0) }

npc_2090004 == {
  T(0, Start, {}, <<Also("quest"), Say, Dispose>>, 0),
  T(0, Start, {}, <<Menu>>, 1),
  T(1, Yes, {}, <<Say, Dispose>>, 0),
  T(1, Yes, {}, <<Menu>>, 2),
  T(2, Yes, {}, <<YesNo>>, 3),
  T(3, Yes, {}, <<Ok, Dispose>>, 0),
  T(3, No, {}, <<Dispose>>, 0) }

\* lines 7 to 119 of 2094000.js
npc_2094000a == {
  T(0, Start, {}, <<Menu>>, 1),
  T(1, Yes, {}, <<TakeAll(4001117), TakeAll(4031437), TakeAll(4001120), TakeAll(4001121), TakeAll(4001260),
      TakeAll(4001122), Ok, Dispose>>, 0),
  T(1, Yes, {}, <<TakeAll(4001117), TakeAll(4031437), TakeAll(4001120), TakeAll(4001121), TakeAll(4001260),
      TakeAll(4001122), Also("startInstance"), Also("setPartyBosslog"), Dispose>>, 0),
  T(1, Yes, {}, <<Ok, Dispose, Ok, Dispose>>, 0),
  T(2, Yes, {}, <<Menu>>, 1) }

\* lines 120 to 241 of 2094000.js
npc_2094000b == {
  T(1, Yes, {}, <<TakeAll(4001117), TakeAll(4031437), TakeAll(4001120), TakeAll(4001121), TakeAll(4001260),
      TakeAll(4001122), Ok, Dispose>>, 0),
  T(1, Yes, {}, <<Ok, Dispose, Ok, Dispose>>, 0),
  T(1, Yes, {}, <<Ok, Dispose>>, 0),
  T(1, Yes, {Room(1, 1)}, <<Also("setOneTimeLog"), Also("setCustomData"), Also("saveToDB"), Give(1002571, 1),
      Ok>>, 2),
  T(1, Yes, {Room(1, 1)}, <<Ok>>, 2),
  T(1, Yes, {}, <<Dispose, OpenNpc>>, 0) }

npc_2094001 == {
  T(0, Start, {}, <<TakeAll(4001117), TakeAll(4001120), TakeAll(4001121), TakeAll(4001122), Give(4170009, 1),
      Give(4032392, 2), Give(4032391, 2), Also("gainExp"), Also("setCustomData"), Also("saveToDB"),
      Also("setBossLog"), Also("endPartyQuest"), Also("warp"), Dispose>>, 0) }

npc_2101014 == {
  T(0, Start, {}, <<Menu>>, 1),
  T(1, Yes, {}, <<Ok, Dispose>>, 0),
  T(1, Yes, {}, <<Also("startInstance"), Dispose>>, 0),
  T(1, Yes, {}, <<Also("registerPlayer"), Dispose>>, 0) }

\* lines 1 to 144 of 2103013.js
npc_2103013a == {
  T(0, Start, {}, <<Menu>>, 1),
  T(3, Both, {}, <<Ok, Dispose>>, 0),
  T(3, No, {}, <<Ok, Dispose, Menu>>, 0),
  T(3, No, {}, <<Ok, Dispose, OpenNpc>>, 0) }

\* lines 145 to 260 of 2103013.js
npc_2103013b == {
  T(0, Start, {}, <<Dispose, OpenNpc>>, 0),
  T(0, Start, {}, <<Menu>>, 2),
  T(0, Start, {}, <<>>, 0),
  T(1, Yes, {}, <<YesNo>>, 3),
  T(2, Yes, {}, <<Ok, Dispose>>, 0),
  T(2, Yes, {}, <<Also("modifyCSPoints"), Also("warp"), Also("setBossLog"), Dispose>>, 0),
  T(3, Both, {}, <<Ok, Dispose>>, 0),
  T(3, Yes, {}, <<Also("resetFully"), Also("setPartyBosslog"), Also("resetFully"), Also("warpParty"),
      Dispose>>, 0),
  T(3, No, {}, <<Ok, Dispose, Menu>>, 0),
  T(3, No, {}, <<Ok, Dispose, OpenNpc>>, 0) }

npc_2112004 == {
  T(0, Start, {}, <<Ok, Dispose>>, 0) }

\* lines 7 to 144 of 2133000.js
npc_2133000a == {
  T(0, Start, {}, <<TakeAll(4001161), TakeAll(4001162), TakeAll(4001163), TakeAll(4001169), TakeAll(2270004),
      Menu>>, 1),
  T(1, Yes, {}, <<TakeAll(4001161), TakeAll(4001162), TakeAll(4001163), TakeAll(4001164), Ok, Dispose>>, 0),
  T(1, Yes, {}, <<TakeAll(4001161), TakeAll(4001162), TakeAll(4001163), TakeAll(4001164),
      Also("startInstance"), Also("setPartyBosslog"), Dispose>>, 0),
  T(1, Yes, {}, <<Ok, Dispose, Ok, Dispose>>, 0),
  T(1, Yes, {}, <<Dispose, OpenNpc>>, 0),
  T(2, Yes, {}, <<TakeAll(4001161), TakeAll(4001162), TakeAll(4001163), TakeAll(4001169), TakeAll(2270004),
      Menu>>, 1) }

\* lines 145 to 306 of 2133000.js
npc_2133000b == {
  T(1, Yes, {}, <<Ok, Dispose>>, 0),
  T(1, Yes, {Room(1, 1)}, <<Also("setCustomData"), Also("saveToDB"), Also("setOneTimeLog"), Give(1012146, 1),
      Ok>>, 2),
  T(1, Yes, {Room(1, 1)}, <<Ok>>, 2) }

\* lines 9 to 97 of 2141001.js
npc_2141001a == {
  T(0, Start, {}, <<Ok, Dispose>>, 0),
  T(0, Start, {}, <<YesNo>>, 1),
  T(0, Start, {}, <<Menu>>, 2),
  T(0, Start, {}, <<Menu>>, 3),
  T(0, Start, {}, <<Ok, SafeDispose>>, 0),
  T(0, Start, {}, <<YesNo>>, 4),
  T(0, Start, {Rich(10000000)}, <<Also("setBossLog"), Pay(1000000), Menu>>, 5) }

\* lines 98 to 235 of 2141001.js
npc_2141001b == {
  T(0, Start, {}, <<Ok, Dispose>>, 0),
  T(0, Start, {}, <<Ok, SafeDispose>>, 0),
  T(0, Start, {}, <<YesNo>>, 4),
  T(0, Start, {}, <<Menu>>, 5),
  T(1, Yes, {}, <<Ok, Dispose>>, 0),
  T(1, Yes, {}, <<Also("registerSquad"), Ok, Dispose>>, 0),
  T(1, No, {}, <<Dispose>>, 0),
  T(2, Yes, {}, <<Say, Dispose>>, 0),
  T(2, Yes, {}, <<Ok, Dispose>>, 0),
  T(2, Yes, {}, <<Menu>>, 6),
  T(2, Yes, {}, <<Menu>>, 7),
  T(2, Yes, {}, <<Say>>, 8),
  T(2, Yes, {}, <<Also("startInstance"), Dispose>>, 0),
  T(3, Yes, {}, <<Also("addMember"), Ok, Dispose>>, 0),
  T(3, Yes, {}, <<Say, Dispose>>, 0),
  T(3, Yes, {}, <<Ok, Dispose>>, 0),
  T(4, Both, {}, <<Also("reAdd"), SafeDispose>>, 0),
  T(4, Both, {}, <<Also("reAdd"), Ok, SafeDispose>>, 0),
  T(5, Yes, {}, <<Dispose>>, 0),
  T(5, Yes, {}, <<Also("registerPlayer"), Dispose>>, 0),
  T(6, Yes, {}, <<Also("banMember"), Dispose>>, 0),
  T(7, Yes, {}, <<Dispose>>, 0),
  T(7, Yes, {}, <<Also("acceptMember"), Dispose>>, 0),
  T(8, Yes, {}, <<Dispose>>, 0) }

\* lines 9 to 97 of 2141001_1.js
npc_2141001_1a == {
  T(0, Start, {}, <<Ok, Dispose>>, 0),
  T(0, Start, {}, <<Ok, SafeDispose>>, 0),
  T(0, Start, {}, <<Menu>>, 1),
  T(0, Start, {}, <<Menu>>, 2),
  T(0, Start, {}, <<YesNo>>, 3),
  T(0, Start, {Rich(10000000)}, <<Also("setBossLog"), Pay(1000000), Menu>>, 4) }

\* lines 98 to 235 of 2141001_1.js
npc_2141001_1b == {
  T(0, Start, {}, <<Ok, Dispose>>, 0),
  T(0, Start, {}, <<Ok, SafeDispose>>, 0),
  T(0, Start, {}, <<YesNo>>, 3),
  T(0, Start, {}, <<Menu>>, 4),
  T(1, Yes, {}, <<Say, Dispose>>, 0),
  T(1, Yes, {}, <<Ok, Dispose>>, 0),
  T(1, Yes, {}, <<Menu>>, 5),
  T(1, Yes, {}, <<Menu>>, 6),
  T(1, Yes, {}, <<Say>>, 7),
  T(1, Yes, {}, <<Also("startInstance"), Dispose>>, 0),
  T(2, Yes, {}, <<Also("addMember"), Ok, Dispose>>, 0),
  T(2, Yes, {}, <<Say, Dispose>>, 0),
  T(2, Yes, {}, <<Ok, Dispose>>, 0),
  T(3, Both, {}, <<Also("reAdd"), SafeDispose>>, 0),
  T(3, Both, {}, <<Also("reAdd"), Ok, SafeDispose>>, 0),
  T(4, Yes, {}, <<Dispose>>, 0),
  T(4, Yes, {}, <<Also("registerPlayer"), Dispose>>, 0),
  T(5, Yes, {}, <<Also("banMember"), Dispose>>, 0),
  T(6, Yes, {}, <<Dispose>>, 0),
  T(6, Yes, {}, <<Also("acceptMember"), Dispose>>, 0),
  T(7, Yes, {}, <<Dispose>>, 0) }

npc_2143004 == {
  T(0, Start, {}, <<YesNo>>, 1),
  T(0, Start, {}, <<Ok, Dispose>>, 0),
  T(0, Start, {}, <<Also("setCustomData"), YesNo>>, 2),
  T(0, Start, {}, <<Also("setCustomData"), Ok, Dispose>>, 0),
  T(0, Start, {}, <<Also("setCustomData"), Menu>>, 3),
  T(0, Start, {}, <<Also("setCustomData"), Menu>>, 4),
  T(0, Start, {}, <<Also("setCustomData"), Ok, SafeDispose>>, 0),
  T(0, Start, {}, <<Also("setCustomData"), YesNo>>, 5),
  T(0, Start, {}, <<Also("setCustomData"), YesNo>>, 6),
  T(0, Start, {}, <<YesNo>>, 2),
  T(0, Start, {}, <<Menu>>, 3),
  T(0, Start, {}, <<Menu>>, 4),
  T(0, Start, {}, <<Ok, SafeDispose>>, 0),
  T(0, Start, {}, <<YesNo>>, 5),
  T(0, Start, {}, <<YesNo>>, 6),
  T(1, Yes, {}, <<Also("warp"), Dispose>>, 0),
  T(1, No, {}, <<Dispose>>, 0),
  T(2, Yes, {}, <<Also("registerSquad"), Ok, Dispose>>, 0),
  T(2, No, {}, <<Dispose>>, 0),
  T(3, Yes, {}, <<Say, Dispose>>, 0),
  T(3, Yes, {}, <<Ok, Dispose>>, 0),
  T(3, Yes, {}, <<Menu>>, 7),
  T(3, Yes, {}, <<Menu>>, 8),
  T(3, Yes, {}, <<Say>>, 9),
  T(3, Yes, {}, <<Also("startInstance"), Dispose>>, 0),
  T(4, Yes, {}, <<Also("addMember"), Ok, Dispose>>, 0),
  T(4, Yes, {}, <<Say, Dispose>>, 0),
  T(4, Yes, {}, <<Ok, Dispose>>, 0),
  T(5, Both, {}, <<Dispose>>, 0),
  T(5, Yes, {}, <<Also("setNextPlayer"), Ok, Dispose>>, 0),
  T(6, Both, {}, <<Also("reAdd"), SafeDispose>>, 0),
  T(6, Both, {}, <<Also("reAdd"), Ok, SafeDispose>>, 0),
  T(7, Yes, {}, <<Also("banMember"), Dispose>>, 0),
  T(8, Yes, {}, <<Dispose>>, 0),
  T(8, Yes, {}, <<Also("acceptMember"), Dispose>>, 0),
  T(9, Yes, {}, <<Dispose>>, 0) }

npc_2159310 == {
  T(0, Start, {}, <<Fail>>, 0) }

npc_2159314 == {
  T(0, Start, {}, <<Fail>>, 0) }

npc_2161012 == {
  T(0, Start, {}, <<Menu>>, 1),
  T(0, Start, {}, <<Ok, Dispose>>, 0),
  T(1, Yes, {}, <<Ok, Dispose>>, 0),
  T(1, Yes, {}, <<Also("startInstance"), Also("setPartyBossLog"), Dispose>>, 0),
  T(1, Yes, {}, <<Also("warp"), Dispose>>, 0) }

NpcScripts20Table == [
  npc_2001004 |-> npc_2001004, npc_2010009_2 |-> npc_2010009_2, npc_2013000 |-> npc_2013000a \cup npc_2013000b,
  npc_2013001 |-> npc_2013001, npc_2020008 |-> npc_2020008, npc_2020009 |-> npc_2020009,
  npc_2022003 |-> npc_2022003, npc_2030006 |-> npc_2030006,
  npc_2030013 |-> npc_2030013a \cup npc_2030013b \cup npc_2030013c,
  npc_2030013_1 |-> npc_2030013_1a \cup npc_2030013_1b, npc_2040016 |-> npc_2040016a \cup npc_2040016b,
  npc_2040030 |-> npc_2040030, npc_2040034 |-> npc_2040034a \cup npc_2040034b, npc_2041008 |-> npc_2041008,
  npc_2041024_1 |-> npc_2041024_1, npc_2042002 |-> npc_2042002, npc_2042007 |-> npc_2042007,
  npc_2080005 |-> npc_2080005, npc_2081005 |-> npc_2081005, npc_2081100 |-> npc_2081100,
  npc_2081200 |-> npc_2081200, npc_2083001 |-> npc_2083001,
  npc_2083004_1 |-> npc_2083004_1a \cup npc_2083004_1b,
  npc_2083004_10 |-> npc_2083004_10a \cup npc_2083004_10b \cup npc_2083004_10c \cup npc_2083004_10d,
  npc_2090004 |-> npc_2090004, npc_2094000 |-> npc_2094000a \cup npc_2094000b, npc_2094001 |-> npc_2094001,
  npc_2101014 |-> npc_2101014, npc_2103013 |-> npc_2103013a \cup npc_2103013b, npc_2112004 |-> npc_2112004,
  npc_2133000 |-> npc_2133000a \cup npc_2133000b, npc_2141001 |-> npc_2141001a \cup npc_2141001b,
  npc_2141001_1 |-> npc_2141001_1a \cup npc_2141001_1b, npc_2143004 |-> npc_2143004,
  npc_2159310 |-> npc_2159310, npc_2159314 |-> npc_2159314, npc_2161012 |-> npc_2161012 ]
================================================================================
