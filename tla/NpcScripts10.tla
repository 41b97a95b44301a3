----------------------------- MODULE NpcScripts10 ------------------------------
(* Tables of the scripts of NPCs 10xxxxx to 13xxxxx. *)
EXTENDS ScriptTables

npc_1002005 == {
  T(0, Start, {}, <<Window(4), Dispose>>, 0) }

npc_1012005 == {
  T(0, Start, {}, <<Say>>, 1),
  T(1, Yes, {}, <<Menu>>, 2),
  T(2, Yes, {}, <<Say>>, 3),
  T(2, Yes, {}, <<Say>>, 4),
  T(2, Yes, {}, <<Say, Dispose>>, 0),
  T(2, Yes, {}, <<Say>>, 5),
  T(3, Yes, {}, <<NextPrev, Dispose>>, 0),
  T(4, Yes, {}, <<NextPrev>>, 6),
  T(5, Yes, {}, <<YesNo>>, 7),
  T(6, Yes, {}, <<NextPrev>>, 8),
  T(6, No, {}, <<Say>>, 4),
  T(7, Yes, {Rich(250000)}, <<Pay(250000), Give(4160011, 1), SafeDispose>>, 0),
  T(7, Yes, {Poor(250000)}, <<Ok, SafeDispose>>, 0),
  T(7, No, {}, <<Dispose>>, 0),
  T(8, Yes, {}, <<Say, SafeDispose>>, 0),
  T(8, No, {}, <<NextPrev>>, 6) }

npc_1012008 == {
  T(0, Start, {}, <<Menu>>, 1),
  T(1, Yes, {}, <<Menu>>, 2),
  T(1, Yes, {}, <<Menu>>, 3),
  T(2, Yes, {}, <<Say>>, 4),
  T(2, Yes, {Has(4030012, 15)}, <<Take(4030012, 15), Give(4080100, 1), Dispose>>, 0),
  T(2, Yes, {Lacks(4030012, 15)}, <<Say, Dispose>>, 0),
  T(3, Yes, {}, <<Ok, Dispose>>, 0),
  T(4, Yes, {}, <<Menu>>, 5),
  T(5, Yes, {Has(4030000, 5), Has(4030001, 5), Has(4030009, 1)}, <<Take(4030000, 5), Take(4030001, 5),
      Take(4030009, 1), Give(4080000, 1), Ok, Dispose>>, 0),
  T(5, Yes, {Has(4030000, 5), Has(4030001, 5), Lacks(4030009, 1)}, <<Say, Dispose>>, 0),
  T(5, Yes, {Has(4030000, 5), Lacks(4030001, 5)}, <<Say, Dispose>>, 0),
  T(5, Yes, {Lacks(4030000, 5)}, <<Say, Dispose>>, 0),
  T(5, Yes, {Has(4030000, 5), Has(4030009, 1), Has(4030010, 5)}, <<Take(4030000, 5), Take(4030010, 5),
      Take(4030009, 1), Give(4080001, 1), Ok, Dispose>>, 0),
  T(5, Yes, {Has(4030000, 5), Has(4030010, 5), Lacks(4030009, 1)}, <<Say, Dispose>>, 0),
  T(5, Yes, {Has(4030000, 5), Has(4030009, 1), Has(4030011, 5)}, <<Take(4030000, 5), Take(4030011, 5),
      Take(4030009, 1), Give(4080002, 1), Ok, Dispose>>, 0),
  T(5, Yes, {Has(4030000, 5), Has(4030011, 5), Lacks(4030009, 1)}, <<Say, Dispose>>, 0),
  T(5, Yes, {Has(4030001, 5), Has(4030009, 1), Has(4030010, 5)}, <<Take(4030010, 5), Take(4030001, 5),
      Take(4030009, 1), Give(4080003, 1), Ok, Dispose>>, 0),
  T(5, Yes, {Has(4030001, 5), Has(4030010, 5), Lacks(4030009, 1)}, <<Say, Dispose>>, 0),
  T(5, Yes, {Has(4030010, 5), Lacks(4030001, 5)}, <<Say, Dispose>>, 0),
  T(5, Yes, {Lacks(4030010, 5)}, <<Say, Dispose>>, 0),
  T(5, Yes, {Has(4030009, 1), Has(4030010, 5), Has(4030011, 5)}, <<Take(4030011, 5), Take(4030010, 5),
      Take(4030009, 1), Give(4030004, 1), Ok, Dispose>>, 0),
  T(5, Yes, {Has(4030010, 5), Has(4030011, 5), Lacks(4030009, 1)}, <<Say, Dispose>>, 0),
  T(5, Yes, {Lacks(4030011, 5)}, <<Say, Dispose>>, 0),
  T(5, Yes, {Has(4030001, 5), Has(4030009, 1), Has(4030011, 5)}, <<Take(4030011, 5), Take(4030001, 5),
      Take(4030009, 1), Give(4080005, 1), Ok, Dispose>>, 0),
  T(5, Yes, {Has(4030001, 5), Has(4030011, 5), Lacks(4030009, 1)}, <<Say, Dispose>>, 0),
  T(5, Yes, {Has(4030011, 5), Lacks(4030001, 5)}, <<Say, Dispose>>, 0) }

npc_1012009 == {
  T(0, Start, {}, <<Menu>>, 1),
  T(0, Start, {}, <<Ok, Dispose>>, 0),
  T(1, Yes, {Has(4000379, 100), Room(0, 3)}, <<Also("setBossLog"), Take(4000379, 100), Give(4000463, 2),
      Give(4000313, 5), Also("gainExp"), Ok, Dispose>>, 0),
  T(1, Yes, {Full(0, 3), Has(4000379, 100)}, <<Ok, Dispose>>, 0),
  T(1, Yes, {Lacks(4000379, 100)}, <<Ok, Dispose>>, 0),
  T(1, Yes, {}, <<YesNo>>, 2),
  T(2, Yes, {Rich(20000)}, <<Pay(20000), Also("warp"), Dispose>>, 0),
  T(2, Yes, {Poor(20000)}, <<Ok, Dispose>>, 0),
  T(2, No, {}, <<Dispose>>, 0) }

npc_1012103 == {
  T(0, Start, {}, <<Menu>>, 1),
  T(1, Yes, {}, <<Style>>, 2),
  T(1, Yes, {}, <<Ok, Dispose>>, 0),
  T(1, Yes, {}, <<Style>>, 3),
  T(2, Yes, {Has(5150001, 1)}, <<Dispose, Take(5150001, 1), Also("setHair"), Ok>>, 0),
  T(2, Yes, {Lacks(5150001, 1)}, <<Dispose, Ok>>, 0),
  T(2, No, {}, <<Dispose>>, 0),
  T(3, Yes, {Has(5151001, 1)}, <<Dispose, Take(5151001, 1), Also("setHair"), Ok>>, 0),
  T(3, Yes, {Lacks(5151001, 1)}, <<Dispose, Ok>>, 0),
  T(3, No, {}, <<Dispose>>, 0) }

npc_1012105 == {
  T(0, Start, {}, <<Menu>>, 1),
  T(1, Yes, {}, <<Style>>, 2),
  T(2, Yes, {Has(5153000, 1)}, <<Take(5153000, 1), Also("setSkin"), Ok, Dispose>>, 0),
  T(2, Yes, {Lacks(5153000, 1)}, <<Ok, Dispose>>, 0),
  T(2, No, {}, <<Dispose>>, 0) }

npc_1012112 == {
  T(0, Start, {}, <<Ok, Dispose>>, 0),
  T(0, Start, {}, <<YesNo>>, 1),
  T(1, Yes, {}, <<Ok, Dispose>>, 0),
  T(1, Yes, {}, <<Say, Dispose>>, 0),
  T(1, Yes, {}, <<Say>>, 2),
  T(1, Yes, {}, <<TakeAll(4001095), TakeAll(4001096), TakeAll(4001097), TakeAll(4001098), TakeAll(4001100),
      Also("startInstance"), Also("setPartyBosslog"), Dispose>>, 0),
  T(1, No, {}, <<Dispose>>, 0),
  T(2, Yes, {}, <<Ok, Dispose>>, 0),
  T(2, Yes, {}, <<>>, 0) }

npc_1022000 == {
  T(0, Start, {}, <<Say>>, 1),
  T(0, Start, {}, <<Ok, Dispose>>, 0),
  T(0, Start, {Has(4031012, 1)}, <<Say>>, 2),
  T(0, Start, {Lacks(4031012, 1)}, <<Say>>, 3),
  T(0, Start, {Has(4031059, 1), Room(4, 4)}, <<Give(4031057, 1), Take(4031059, 1), Also("warp"), Ok,
      Dispose>>, 0),
  T(1, Yes, {}, <<NextPrev>>, 4),
  T(2, Yes, {}, <<Menu>>, 5),
  T(3, Yes, {}, <<NextPrev>>, 6),
  T(4, Yes, {}, <<YesNo>>, 7),
  T(4, No, {}, <<Say>>, 1),
  T(4, No, {}, <<Ok, Dispose>>, 0),
  T(4, No, {Has(4031012, 1)}, <<Say>>, 2),
  T(4, No, {Lacks(4031012, 1)}, <<Say>>, 3),
  T(4, No, {Has(4031059, 1), Room(4, 4)}, <<Give(4031057, 1), Take(4031059, 1), Also("warp"), Ok, Dispose>>, 0),
  T(5, Yes, {}, <<YesNo>>, 8),
  T(6, Yes, {}, <<Accept>>, 9),
  T(6, No, {}, <<>>, 0),
  T(7, Yes, {}, <<Also("changeJob"), Also("resetStats"), Give(1402001, 1), Ok, Dispose>>, 0),
  T(7, Yes, {}, <<Give(1402001, 1), Ok, Dispose>>, 0),
  T(7, No, {}, <<Ok, Dispose>>, 0),
  T(8, Yes, {}, <<Also("changeJob"), Take(4031012, 1), Ok, Dispose>>, 0),
  T(8, No, {}, <<Menu>>, 5),
  T(9, Yes, {}, <<Give(4031008, 1), Also("warp"), Ok, Dispose>>, 0),
  T(9, No, {}, <<NextPrev>>, 6) }

npc_1022005 == {
  T(0, Start, {}, <<Menu>>, 1),
  T(0, Start, {}, <<Ok, Dispose>>, 0),
  T(1, Yes, {Has(4000043, 50), Room(0, 3)}, <<Also("setBossLog"), Take(4000043, 50), Give(4000313, 5),
      Also("gainExp"), Ok, Dispose>>, 0),
  T(1, Yes, {Full(0, 3), Has(4000043, 50)}, <<Ok, Dispose>>, 0),
  T(1, Yes, {Lacks(4000043, 50)}, <<Ok, Dispose>>, 0),
  T(1, Yes, {}, <<YesNo>>, 2),
  T(2, Yes, {Rich(20000)}, <<Pay(20000), Also("warp"), Dispose>>, 0),
  T(2, Yes, {Poor(20000)}, <<Ok, Dispose>>, 0),
  T(2, No, {}, <<Dispose>>, 0) }

npc_1032001 == {
  T(0, Start, {}, <<Say>>, 1),
  T(0, Start, {}, <<Ok, Dispose>>, 0),
  T(0, Start, {Has(4031012, 1)}, <<Say>>, 2),
  T(0, Start, {Lacks(4031012, 1)}, <<Say>>, 3),
  T(0, Start, {Has(4031059, 1), Room(4, 4)}, <<Give(4031057, 1), Take(4031059, 1), Also("warp"), Ok,
      Dispose>>, 0),
  T(1, Yes, {}, <<NextPrev>>, 4),
  T(2, Yes, {}, <<Menu>>, 5),
  T(3, Yes, {}, <<NextPrev>>, 6),
  T(4, Yes, {}, <<YesNo>>, 7),
  T(4, No, {}, <<Say>>, 1),
  T(4, No, {}, <<Ok, Dispose>>, 0),
  T(4, No, {Has(4031012, 1)}, <<Say>>, 2),
  T(4, No, {Lacks(4031012, 1)}, <<Say>>, 3),
  T(4, No, {Has(4031059, 1), Room(4, 4)}, <<Give(4031057, 1), Take(4031059, 1), Also("warp"), Ok, Dispose>>, 0),
  T(5, Yes, {}, <<YesNo>>, 8),
  T(6, Yes, {}, <<Accept>>, 9),
  T(6, No, {}, <<>>, 0),
  T(7, Yes, {}, <<Also("changeJob"), Also("resetStats"), Give(1372005, 1), Ok, Dispose>>, 0),
  T(7, Yes, {}, <<Give(1372005, 1), Ok, Dispose>>, 0),
  T(7, No, {}, <<Ok, Dispose>>, 0),
  T(8, Yes, {}, <<Also("changeJob"), Take(4031012, 1), Ok, Dispose>>, 0),
  T(8, No, {}, <<Menu>>, 5),
  T(9, Yes, {}, <<Give(4031009, 1), Also("warp"), Ok, Dispose>>, 0),
  T(9, No, {}, <<NextPrev>>, 6) }

npc_1032002 == {
  T(0, Start, {}, <<Menu>>, 1),
  T(0, Start, {}, <<Ok, Dispose>>, 0),
  T(1, Yes, {Has(4000190, 25), Has(4000191, 25), Room(0, 3)}, <<Also("setBossLog"), Take(4000190, 25),
      Take(4000191, 25), Give(4000313, 5), Also("gainExp"), Ok, Dispose>>, 0),
  T(1, Yes, {Full(0, 3), Has(4000190, 25), Has(4000191, 25)}, <<Ok, Dispose>>, 0),
  T(1, Yes, {Has(4000190, 25), Lacks(4000191, 25)}, <<Ok, Dispose>>, 0),
  T(1, Yes, {Lacks(4000190, 25)}, <<Ok, Dispose>>, 0),
  T(1, Yes, {}, <<YesNo>>, 2),
  T(2, Yes, {Rich(20000)}, <<Pay(20000), Also("warp"), Dispose>>, 0),
  T(2, Yes, {Poor(20000)}, <<Ok, Dispose>>, 0),
  T(2, No, {}, <<Dispose>>, 0) }

npc_1033002 == {
  T(0, Start, {}, <<OpenShop, Dispose>>, 0) }

npc_1052001 == {
  T(0, Start, {}, <<Ok, Dispose, Say>>, 0),
  T(0, Start, {}, <<Ok, Dispose, Ok, Dispose>>, 0),
  T(0, Start, {Has(4031059, 1), Room(4, 4)}, <<Ok, Dispose, Give(4031057, 1), Take(4031059, 1), Also("warp"),
      Ok, Dispose>>, 0),
  T(0, Start, {}, <<Also("startInstance"), SafeDispose>>, 0),
  T(0, Start, {}, <<Say>>, 1),
  T(0, Start, {}, <<Ok, Dispose>>, 0),
  T(0, Start, {Has(4031012, 1)}, <<Say>>, 2),
  T(0, Start, {Lacks(4031012, 1)}, <<Say>>, 3),
  T(0, Start, {Has(4031059, 1), Room(4, 4)}, <<Give(4031057, 1), Take(4031059, 1), Also("warp"), Ok,
      Dispose>>, 0),
  T(1, Yes, {}, <<NextPrev>>, 4),
  T(2, Yes, {}, <<Menu>>, 5),
  T(3, Yes, {}, <<NextPrev>>, 6),
  T(4, Yes, {}, <<YesNo>>, 7),
  T(4, No, {}, <<Ok, Dispose, Say>>, 0),
  T(4, No, {}, <<Ok, Dispose, Ok, Dispose>>, 0),
  T(4, No, {Has(4031059, 1), Room(4, 4)}, <<Ok, Dispose, Give(4031057, 1), Take(4031059, 1), Also("warp"),
      Ok, Dispose>>, 0),
  T(4, No, {}, <<Also("startInstance"), SafeDispose>>, 0),
  T(4, No, {}, <<Say>>, 1),
  T(4, No, {}, <<Ok, Dispose>>, 0),
  T(4, No, {Has(4031012, 1)}, <<Say>>, 2),
  T(4, No, {Lacks(4031012, 1)}, <<Say>>, 3),
  T(4, No, {Has(4031059, 1), Room(4, 4)}, <<Give(4031057, 1), Take(4031059, 1), Also("warp"), Ok, Dispose>>, 0),
  T(5, Yes, {}, <<YesNo>>, 8),
  T(6, Yes, {}, <<Accept>>, 9),
  T(6, No, {}, <<>>, 0),
  T(7, Yes, {}, <<Also("changeJob"), Also("resetStats"), Also("quest"), Give(1032076, 1), Give(1332063, 1),
      Give(1472000, 1), Give(2070000, 500), Give(2070000, 500), Ok, Dispose>>, 0),
  T(7, Yes, {}, <<Also("changeJob"), Also("resetStats"), Give(1332063, 1), Give(1472000, 1), Give(2070000,
      500), Give(2070000, 500), Ok, Dispose>>, 0),
  T(7, Yes, {}, <<Give(1332063, 1), Give(1472000, 1), Give(2070000, 500), Give(2070000, 500), Ok, Dispose>>, 0),
  T(7, No, {}, <<Ok, Dispose>>, 0),
  T(8, Yes, {}, <<Also("changeJob"), Take(4031012, 1), Ok, Dispose>>, 0),
  T(8, No, {}, <<Menu>>, 5),
  T(9, Yes, {}, <<Give(4031011, 1), Also("warp"), Ok, Dispose>>, 0),
  T(9, No, {}, <<NextPrev>>, 6) }

npc_1052004 == {
  T(0, Start, {}, <<Menu>>, 1),
  T(1, Yes, {}, <<Style>>, 2),
  T(2, Yes, {Has(5152001, 1)}, <<Dispose, Take(5152001, 1), Also("setFace"), Ok>>, 0),
  T(2, Yes, {Lacks(5152001, 1)}, <<Dispose, Ok>>, 0),
  T(2, No, {}, <<Menu>>, 1) }

npc_1052012 == {
  T(0, Start, {}, <<Menu>>, 1),
  T(0, Start, {}, <<Ok, Dispose>>, 0),
  T(1, Yes, {Has(4000164, 25), Has(4000165, 25), Room(0, 3)}, <<Also("setBossLog"), Take(4000164, 25),
      Take(4000165, 25), Give(4000463, 2), Give(4000313, 5), Also("gainExp"), Ok, Dispose>>, 0),
  T(1, Yes, {Full(0, 3), Has(4000164, 25), Has(4000165, 25)}, <<Ok, Dispose>>, 0),
  T(1, Yes, {Has(4000164, 25), Lacks(4000165, 25)}, <<Ok, Dispose>>, 0),
  T(1, Yes, {Lacks(4000164, 25)}, <<Ok, Dispose>>, 0),
  T(1, Yes, {}, <<YesNo>>, 2),
  T(2, Yes, {Rich(20000)}, <<Pay(20000), Also("warp"), Dispose>>, 0),
  T(2, Yes, {Poor(20000)}, <<Ok, Dispose>>, 0),
  T(2, No, {}, <<Dispose>>, 0) }

npc_1052014 == {
  T(0, Start, {}, <<Menu>>, 1),
  T(1, Yes, {Rich(300000)}, <<Number>>, 2),
  T(1, Yes, {Poor(300000)}, <<Ok, Dispose>>, 0),
  T(1, Yes, {Rich(600000)}, <<Number>>, 3),
  T(1, Yes, {Poor(600000)}, <<Ok, Dispose>>, 0),
  T(1, Yes, {Rich(1200000)}, <<Number>>, 4),
  T(1, Yes, {Poor(1200000)}, <<Ok, Dispose>>, 0),
  T(1, Yes, {Rich(5000000), Room(4, 1)}, <<Pay(5000000), Give(4140102, 1), Dispose>>, 0),
  T(1, Yes, {Full(4, 1), Rich(5000000)}, <<Ok, Dispose>>, 0),
  T(1, Yes, {Poor(5000000)}, <<Ok, Dispose>>, 0),
  T(1, Yes, {Rich(10000000), Room(4, 1)}, <<Pay(10000000), Give(4140101, 1), Dispose>>, 0),
  T(1, Yes, {Full(4, 1), Rich(10000000)}, <<Ok, Dispose>>, 0),
  T(1, Yes, {Poor(10000000)}, <<Ok, Dispose>>, 0),
  T(1, Yes, {Rich(15000000), Room(4, 1)}, <<Pay(15000000), Give(4032444, 1), Dispose>>, 0),
  T(1, Yes, {Full(4, 1), Rich(15000000)}, <<Ok, Dispose>>, 0),
  T(1, Yes, {Poor(15000000)}, <<Ok, Dispose>>, 0),
  T(1, Yes, {Rich(15000000), Room(4, 1)}, <<Pay(15000000), Give(4032445, 1), Dispose>>, 0),
  T(1, Yes, {Rich(15000000), Room(4, 1)}, <<Pay(15000000), Give(4032446, 1), Dispose>>, 0),
  T(1, Yes, {Rich(20000000), Room(4, 1)}, <<Pay(20000000), Give(4031110, 1), Dispose>>, 0),
  T(1, Yes, {Full(4, 1), Rich(20000000)}, <<Ok, Dispose>>, 0),
  T(1, Yes, {Poor(20000000)}, <<Ok, Dispose>>, 0),
  T(1, Yes, {Rich(20000000), Room(4, 1)}, <<Pay(20000000), Give(4031109, 1), Dispose>>, 0),
  T(1, Yes, {Rich(75000000), Room(3, 1)}, <<Pay(75000000), Give(3994185, 1), Dispose>>, 0),
  T(1, Yes, {Full(3, 1), Rich(75000000)}, <<Ok, Dispose>>, 0),
  T(1, Yes, {Poor(75000000)}, <<Ok, Dispose>>, 0),
  T(1, Yes, {Rich(25000000), Room(3, 1)}, <<Pay(25000000), Give(3800088, 1), Dispose>>, 0),
  T(1, Yes, {Full(3, 1), Rich(25000000)}, <<Ok, Dispose>>, 0),
  T(1, Yes, {Poor(25000000)}, <<Ok, Dispose>>, 0),
  T(2, Yes, {}, <<Ok, Dispose>>, 0),
  T(2, Yes, {Room(3, 1)}, <<Give(3992017, Some), Pay(Some), Dispose>>, 0),
  T(2, Both, {}, <<Dispose>>, 0),
  T(3, Yes, {}, <<Ok, Dispose>>, 0),
  T(3, Yes, {Room(3, 1)}, <<Give(3992018, Some), Pay(Some), Dispose>>, 0),
  T(3, Both, {}, <<Dispose>>, 0),
  T(4, Yes, {}, <<Ok, Dispose>>, 0),
  T(4, Yes, {Room(3, 1)}, <<Give(3992019, Some), Pay(Some), Dispose>>, 0),
  T(4, Both, {}, <<Dispose>>, 0) }

npc_1052015 == {
  T(0, Start, {}, <<Fail>>, 0) }

npc_1061008 == {
  T(0, Start, {}, <<Menu>>, 1),
  T(0, Start, {}, <<Ok, Dispose>>, 0),
  T(1, Yes, {Has(4000173, 50), Room(0, 3)}, <<Also("setBossLog"), Take(4000173, 50), Give(4000463, 2),
      Give(4000313, 5), Also("gainExp"), Ok, Dispose>>, 0),
  T(1, Yes, {Full(0, 3), Has(4000173, 50)}, <<Ok, Dispose>>, 0),
  T(1, Yes, {Lacks(4000173, 50)}, <<Ok, Dispose>>, 0),
  T(1, Yes, {}, <<YesNo>>, 2),
  T(2, Yes, {Rich(20000)}, <<Pay(20000), Also("warp"), Dispose>>, 0),
  T(2, Yes, {Poor(20000)}, <<Ok, Dispose>>, 0),
  T(2, No, {}, <<Dispose>>, 0) }

npc_1061014 == {
  T(0, Start, {}, <<Say>>, 1),
  T(1, Yes, {}, <<Ok, SafeDispose>>, 0),
  T(1, Yes, {}, <<YesNo>>, 2),
  T(1, Yes, {}, <<Menu>>, 3),
  T(1, Yes, {}, <<Menu>>, 4),
  T(1, Yes, {}, <<YesNo>>, 5),
  T(1, Yes, {}, <<Say, Dispose>>, 0),
  T(2, Yes, {}, <<Also("registerSquad"), Ok, SafeDispose>>, 0),
  T(2, Yes, {}, <<Say, SafeDispose>>, 0),
  T(2, No, {}, <<Ok, SafeDispose>>, 0),
  T(3, Yes, {}, <<Say, SafeDispose>>, 0),
  T(3, Yes, {}, <<Ok, SafeDispose>>, 0),
  T(3, Yes, {}, <<Menu, SafeDispose>>, 0),
  T(3, Yes, {}, <<Also("startInstance"), Dispose>>, 0),
  T(4, Yes, {}, <<Say, Dispose>>, 0),
  T(4, Yes, {}, <<Ok, SafeDispose>>, 0),
  T(4, Yes, {}, <<Also("addMember"), Ok, SafeDispose>>, 0),
  T(4, Yes, {}, <<Say>>, 6),
  T(5, Both, {}, <<Also("reAdd"), SafeDispose>>, 0),
  T(5, Both, {}, <<Also("reAdd"), Ok, SafeDispose>>, 0),
  T(6, Yes, {}, <<Also("addMember"), Ok, SafeDispose>>, 0) }

\* lines 1 to 113 of 1092015_2.js
npc_1092015_2a == {
  T(0, Start, {}, <<Menu>>, 1),
  T(0, Start, {}, <<Say>>, 1),
  T(1, Yes, {}, <<Say>>, 2),
  T(1, Yes, {}, <<Say>>, 3),
  T(1, Yes, {}, <<Say>>, 4),
  T(1, Yes, {}, <<Say>>, 5),
  T(1, Yes, {}, <<Say>>, 6),
  T(1, Yes, {}, <<Say>>, 7),
  T(1, Yes, {}, <<Say>>, 8),
  T(1, Yes, {}, <<Say>>, 9),
  T(1, Yes, {}, <<Say>>, 10),
  T(1, Yes, {}, <<Say>>, 11),
  T(1, Yes, {}, <<Dispose, Say>>, 0),
  T(1, Yes, {}, <<Dispose, Ok, Dispose>>, 0),
  T(12, No, {}, <<Dispose>>, 0) }

\* lines 114 to 256 of 1092015_2.js
npc_1092015_2b == {
  T(1, Yes, {}, <<Dispose, Ok, Dispose>>, 0),
  T(2, Yes, {}, <<Ok, Dispose>>, 0),
  T(2, Yes, {Has(3992025, 19)}, <<Take(3992025, 19), YesNo>>, 12),
  T(3, Yes, {}, <<Ok, Dispose>>, 0),
  T(3, Yes, {Has(3992025, 49)}, <<Take(3992025, 49), YesNo>>, 12),
  T(3, Yes, {Has(3992025, 49)}, <<Take(3992025, 49), Ok, Dispose>>, 0),
  T(4, Yes, {}, <<Ok, Dispose>>, 0),
  T(4, Yes, {Has(3992025, 99)}, <<Take(3992025, 99), YesNo>>, 12),
  T(4, Yes, {Has(3992025, 99)}, <<Take(3992025, 99), Ok, Dispose>>, 0),
  T(5, Yes, {}, <<Ok, Dispose>>, 0),
  T(5, Yes, {Has(3992025, 169)}, <<Take(3992025, 169), YesNo>>, 12),
  T(5, Yes, {Has(3992025, 169)}, <<Take(3992025, 169), Ok, Dispose>>, 0),
  T(6, Yes, {}, <<Ok, Dispose>>, 0),
  T(6, Yes, {Has(3992025, 259)}, <<Take(3992025, 259), YesNo>>, 12),
  T(6, Yes, {Has(3992025, 259)}, <<Take(3992025, 259), Ok, Dispose>>, 0),
  T(7, Yes, {}, <<Ok, Dispose>>, 0),
  T(7, Yes, {Has(3992025, 369)}, <<Take(3992025, 369), YesNo>>, 12),
  T(7, Yes, {Has(3992025, 369)}, <<Take(3992025, 369), Ok, Dispose>>, 0),
  T(8, Yes, {}, <<Ok, Dispose>>, 0),
  T(8, Yes, {Has(3992025, 499)}, <<Take(3992025, 499), YesNo>>, 12),
  T(8, Yes, {Has(3992025, 499)}, <<Take(3992025, 499), Ok, Dispose>>, 0),
  T(9, Yes, {}, <<Ok, Dispose>>, 0),
  T(9, Yes, {Has(3992025, 649)}, <<Take(3992025, 649), YesNo>>, 12),
  T(9, Yes, {Has(3992025, 649)}, <<Take(3992025, 649), Also("setStr"), Also("setDex"), Also("setInt"),
      Also("setLuk"), Also("setHp"), Also("setMp"), Also("setWatk"), Also("setMatk"), Also("setOwner"),
      Take(Some, Some), Give(Some, Some), Ok, Dispose>>, 0),
  T(10, Yes, {}, <<Ok, Dispose>>, 0),
  T(10, Yes, {Has(3992025, 819)}, <<Take(3992025, 819), YesNo>>, 12),
  T(10, Yes, {Has(3992025, 819)}, <<Take(3992025, 819), Also("setStr"), Also("setDex"), Also("setInt"),
      Also("setLuk"), Also("setHp"), Also("setMp"), Also("setWatk"), Also("setMatk"), Also("setOwner"),
      Take(Some, Some), Give(Some, Some), Ok, Dispose>>, 0),
  T(11, Yes, {}, <<Ok, Dispose>>, 0),
  T(11, Yes, {Has(3992025, 1009)}, <<Take(3992025, 1009), YesNo>>, 12),
  T(11, Yes, {Has(3992025, 1009)}, <<Take(3992025, 1009), Also("setStr"), Also("setDex"), Also("setInt"),
      Also("setLuk"), Also("setHp"), Also("setMp"), Also("setWatk"), Also("setMatk"), Also("setOwner"),
      Take(Some, Some), Give(Some, Some), Ok, Dispose>>, 0),
  T(12, Yes, {}, <<Also("setStr"), Also("setDex"), Also("setInt"), Also("setLuk"), Also("setHp"),
      Also("setMp"), Also("setWatk"), Also("setMatk"), Also("setOwner"), Take(Some, Some), Give(Some, Some),
      Ok, Fail>>, 13),
  T(13, Yes, {}, <<>>, 0) }

\* lines 1 to 125 of 1092015_3.js
npc_1092015_3a == {
  T(0, Start, {}, <<Menu>>, 1),
  T(0, Start, {}, <<Say>>, 1),
  T(1, Yes, {}, <<Number>>, 2),
  T(2, Yes, {}, <<Say>>, 3),
  T(2, Yes, {}, <<Say>>, 4),
  T(2, Yes, {}, <<Say>>, 5),
  T(2, Yes, {}, <<Say>>, 6),
  T(2, Yes, {}, <<Say>>, 7),
  T(2, Yes, {}, <<Say>>, 8),
  T(2, Yes, {}, <<Say>>, 9),
  T(2, Yes, {}, <<Say>>, 10),
  T(2, Yes, {}, <<Say>>, 11),
  T(2, Yes, {}, <<Say>>, 12),
  T(2, Yes, {}, <<Dispose, Say>>, 0),
  T(2, Yes, {}, <<Dispose, Ok, Dispose>>, 0),
  T(2, No, {}, <<Ok, Dispose>>, 0),
  T(3, Yes, {}, <<Ok, Dispose>>, 0),
  T(4, Yes, {}, <<Ok, Dispose>>, 0),
  T(5, Yes, {}, <<Ok, Dispose>>, 0),
  T(6, Yes, {}, <<Ok, Dispose>>, 0),
  T(7, Yes, {}, <<Ok, Dispose>>, 0),
  T(8, Yes, {}, <<Ok, Dispose>>, 0),
  T(9, Yes, {}, <<Ok, Dispose>>, 0),
  T(10, Yes, {}, <<Ok, Dispose>>, 0),
  T(11, Yes, {}, <<Ok, Dispose>>, 0),
  T(12, Yes, {}, <<Ok, Dispose>>, 0),
  T(13, No, {}, <<Ok, Dispose>>, 0) }

\* lines 126 to 271 of 1092015_3.js
npc_1092015_3b == {
  T(3, Yes, {}, <<Ok, Dispose>>, 0),
  T(3, Yes, {Has(3992025, 19)}, <<Take(3992025, 19), Take(2530000, Some), YesNo>>, 13),
  T(3, Yes, {Has(3992025, 19)}, <<Take(3992025, 19), Also("setStr"), Also("setDex"), Also("setInt"),
      Also("setLuk"), Also("setHp"), Also("setMp"), Also("setWatk"), Also("setMatk"), Also("setOwner"),
      Take(Some, Some), Give(Some, Some), Ok, Dispose>>, 0),
  T(3, Yes, {Has(3992025, 19)}, <<Take(3992025, 19), Give(3992025, Some), Ok, Dispose>>, 0),
  T(4, Yes, {}, <<Ok, Dispose>>, 0),
  T(4, Yes, {Has(3992025, 49)}, <<Take(3992025, 49), Take(2530000, Some), YesNo>>, 13),
  T(4, Yes, {Has(3992025, 49)}, <<Take(3992025, 49), Also("setStr"), Also("setDex"), Also("setInt"),
      Also("setLuk"), Also("setHp"), Also("setMp"), Also("setWatk"), Also("setMatk"), Also("setOwner"),
      Take(Some, Some), Give(Some, Some), Ok, Dispose>>, 0),
  T(4, Yes, {Has(3992025, 49)}, <<Take(3992025, 49), Give(3992025, Some), Ok, Dispose>>, 0),
  T(5, Yes, {}, <<Ok, Dispose>>, 0),
  T(5, Yes, {Has(3992025, 99)}, <<Take(3992025, 99), Take(2530000, Some), YesNo>>, 13),
  T(5, Yes, {Has(3992025, 99)}, <<Take(3992025, 99), Also("setStr"), Also("setDex"), Also("setInt"),
      Also("setLuk"), Also("setHp"), Also("setMp"), Also("setWatk"), Also("setMatk"), Also("setOwner"),
      Take(Some, Some), Give(Some, Some), Ok, Dispose>>, 0),
  T(5, Yes, {Has(3992025, 99)}, <<Take(3992025, 99), Give(3992025, Some), Ok, Dispose>>, 0),
  T(6, Yes, {}, <<Ok, Dispose>>, 0),
  T(6, Yes, {Has(3992025, 169)}, <<Take(3992025, 169), Take(2530000, Some), YesNo>>, 13),
  T(6, Yes, {Has(3992025, 169)}, <<Take(3992025, 169), Also("setStr"), Also("setDex"), Also("setInt"),
      Also("setLuk"), Also("setHp"), Also("setMp"), Also("setWatk"), Also("setMatk"), Also("setOwner"),
      Take(Some, Some), Give(Some, Some), Ok, Dispose>>, 0),
  T(6, Yes, {Has(3992025, 169)}, <<Take(3992025, 169), Give(3992025, Some), Ok, Dispose>>, 0),
  T(7, Yes, {}, <<Ok, Dispose>>, 0),
  T(7, Yes, {Has(3992025, 259)}, <<Take(3992025, 259), Take(2530000, Some), YesNo>>, 13),
  T(7, Yes, {Has(3992025, 259)}, <<Take(3992025, 259), Also("setStr"), Also("setDex"), Also("setInt"),
      Also("setLuk"), Also("setHp"), Also("setMp"), Also("setWatk"), Also("setMatk"), Also("setOwner"),
      Take(Some, Some), Give(Some, Some), Ok, Dispose>>, 0),
  T(7, Yes, {Has(3992025, 259)}, <<Take(3992025, 259), Give(3992025, Some), Ok, Dispose>>, 0),
  T(8, Yes, {}, <<Ok, Dispose>>, 0),
  T(8, Yes, {Has(3992025, 369)}, <<Take(3992025, 369), Take(2530000, Some), YesNo>>, 13),
  T(8, Yes, {Has(3992025, 369)}, <<Take(3992025, 369), Also("setStr"), Also("setDex"), Also("setInt"),
      Also("setLuk"), Also("setHp"), Also("setMp"), Also("setWatk"), Also("setMatk"), Also("setOwner"),
      Take(Some, Some), Give(Some, Some), Ok, Dispose>>, 0),
  T(8, Yes, {Has(3992025, 369)}, <<Take(3992025, 369), Give(3992025, Some), Ok, Dispose>>, 0),
  T(9, Yes, {}, <<Ok, Dispose>>, 0),
  T(9, Yes, {Has(3992025, 499)}, <<Take(3992025, 499), Take(2530000, Some), YesNo>>, 13),
  T(9, Yes, {Has(3992025, 499)}, <<Take(3992025, 499), Also("setStr"), Also("setDex"), Also("setInt"),
      Also("setLuk"), Also("setHp"), Also("setMp"), Also("setWatk"), Also("setMatk"), Also("setOwner"),
      Take(Some, Some), Give(Some, Some), Ok, Dispose>>, 0),
  T(9, Yes, {Has(3992025, 499)}, <<Take(3992025, 499), Give(3992025, Some), Ok, Dispose>>, 0),
  T(10, Yes, {}, <<Ok, Dispose>>, 0),
  T(10, Yes, {Has(3992025, 649)}, <<Take(3992025, 649), Take(2530000, Some), YesNo>>, 13),
  T(10, Yes, {Has(3992025, 649)}, <<Take(3992025, 649), Also("setStr"), Also("setDex"), Also("setInt"),
      Also("setLuk"), Also("setHp"), Also("setMp"), Also("setWatk"), Also("setMatk"), Also("setOwner"),
      Take(Some, Some), Give(Some, Some), Ok, Dispose>>, 0),
  T(10, Yes, {Has(3992025, 649)}, <<Take(3992025, 649), Give(3992025, Some), Ok, Dispose>>, 0),
  T(11, Yes, {}, <<Ok, Dispose>>, 0),
  T(11, Yes, {Has(3992025, 819)}, <<Take(3992025, 819), Take(2530000, Some), YesNo>>, 13),
  T(11, Yes, {Has(3992025, 819)}, <<Take(3992025, 819), Also("setStr"), Also("setDex"), Also("setInt"),
      Also("setLuk"), Also("setHp"), Also("setMp"), Also("setWatk"), Also("setMatk"), Also("setOwner"),
      Take(Some, Some), Give(Some, Some), Ok, Dispose>>, 0),
  T(11, Yes, {Has(3992025, 819)}, <<Take(3992025, 819), Give(3992025, Some), Ok, Dispose>>, 0),
  T(12, Yes, {}, <<Ok, Dispose>>, 0),
  T(12, Yes, {Has(3992025, 1009)}, <<Take(3992025, 1009), Take(2530000, Some), YesNo>>, 13),
  T(12, Yes, {Has(3992025, 1009)}, <<Take(3992025, 1009), Also("setStr"), Also("setDex"), Also("setInt"),
      Also("setLuk"), Also("setHp"), Also("setMp"), Also("setWatk"), Also("setMatk"), Also("setOwner"),
      Take(Some, Some), Give(Some, Some), Ok, Dispose>>, 0),
  T(12, Yes, {Has(3992025, 1009)}, <<Take(3992025, 1009), Give(3992025, Some), Ok, Dispose>>, 0),
  T(13, Yes, {}, <<Also("setStr"), Also("setDex"), Also("setInt"), Also("setLuk"), Also("setHp"),
      Also("setMp"), Also("setWatk"), Also("setMatk"), Also("setOwner"), Dispose, Take(Some, Some),
      Give(Some, Some), Ok, Fail>>, 0) }

\* lines 1 to 110 of 1092015_4.js
npc_1092015_4a == {
  T(0, Start, {}, <<Say>>, 1),
  T(1, Yes, {}, <<Menu>>, 2),
  T(2, Yes, {}, <<Ok, Dispose>>, 0),
  T(2, Yes, {Has(2640010, 1)}, <<Menu>>, 3),
  T(2, Yes, {Has(2640011, 1)}, <<Menu>>, 4),
  T(2, Yes, {Has(2615001, 1)}, <<Menu>>, 5),
  T(3, Yes, {}, <<YesNo>>, 6),
  T(3, Yes, {}, <<Ok, Dispose>>, 0),
  T(3, Yes, {}, <<YesNo>>, 7),
  T(4, Yes, {}, <<YesNo>>, 8),
  T(4, Yes, {}, <<Ok, Dispose>>, 0),
  T(4, Yes, {}, <<YesNo>>, 9),
  T(5, Yes, {}, <<YesNo>>, 9),
  T(5, Yes, {}, <<Ok, Dispose>>, 0),
  T(5, Yes, {}, <<YesNo>>, 10),
  T(6, Both, {}, <<Ok, Dispose>>, 0),
  T(6, No, {}, <<Dispose>>, 0) }

\* lines 111 to 255 of 1092015_4.js
npc_1092015_4b == {
  T(5, Yes, {}, <<Ok, Dispose>>, 0),
  T(6, Yes, {Has(2340000, 1)}, <<Fail>>, 0),
  T(6, Both, {}, <<Ok, Dispose>>, 0),
  T(7, Yes, {}, <<Fail>>, 0),
  T(7, Yes, {}, <<Ok, Dispose>>, 0),
  T(7, No, {}, <<Dispose>>, 0),
  T(8, Yes, {}, <<Fail>>, 0),
  T(8, Both, {}, <<Ok, Dispose>>, 0),
  T(8, No, {Has(2340000, 1)}, <<Fail>>, 0),
  T(9, Both, {}, <<Fail>>, 0),
  T(9, Both, {}, <<Ok, Dispose>>, 0),
  T(10, No, {}, <<Ok, Dispose>>, 0) }

\* lines 256 to 385 of 1092015_4.js
npc_1092015_4c == {
  T(9, Both, {}, <<Fail>>, 0),
  T(9, Both, {}, <<Ok, Dispose>>, 0),
  T(10, Yes, {}, <<>>, 0),
  T(10, No, {}, <<Fail>>, 0),
  T(10, No, {}, <<Ok, Dispose>>, 0) }

\* lines 9 to 158 of 1092015_5.js
npc_1092015_5a == {
  T(0, Start, {}, <<Menu>>, 1),
  T(0, Start, {}, <<Say>>, 1),
  T(1, Yes, {}, <<Menu>>, 2),
  T(2, Yes, {Has(2049100, 1), Rich(5000001)}, <<Menu>>, 3),
  T(2, Yes, {}, <<Ok, Dispose>>, 0),
  T(2, Yes, {Has(2049100, 1)}, <<Menu>>, 4),
  T(3, Yes, {}, <<YesNo>>, 5),
  T(3, Yes, {}, <<YesNo>>, 6),
  T(4, Yes, {}, <<YesNo>>, 7),
  T(4, Yes, {}, <<YesNo>>, 8),
  T(5, Yes, {Has(2340000, 1)}, <<Take(2049100, 1), Take(2340000, 1), Pay(5000000), Ok, Dispose>>, 0),
  T(5, Yes, {Has(2340000, 1)}, <<Take(2049100, 1), Take(2340000, 1), Pay(5000000), YesNo>>, 9),
  T(5, Both, {}, <<Ok, Dispose>>, 0),
  T(6, Yes, {}, <<Fail>>, 0),
  T(6, Yes, {}, <<Pay(5000000), Take(2049100, 1), YesNo>>, 9),
  T(6, Both, {}, <<Ok, Dispose>>, 0),
  T(7, Both, {}, <<Ok, Dispose>>, 0),
  T(8, Both, {}, <<Ok, Dispose>>, 0),
  T(9, No, {}, <<Ok, Dispose>>, 0) }

\* lines 159 to 493 of 1092015_5.js
npc_1092015_5b == {
  T(7, Yes, {Has(2340000, 1)}, <<Take(2049100, 1), Take(2340000, 1), Also("gainNX"), Ok, Dispose>>, 0),
  T(7, Yes, {Has(2340000, 1)}, <<Take(2049100, 1), Take(2340000, 1), Also("gainNX"), YesNo>>, 9),
  T(7, Both, {}, <<Ok, Dispose>>, 0),
  T(8, Yes, {}, <<Fail>>, 0),
  T(8, Yes, {}, <<Take(2049100, 1), Also("gainNX"), YesNo>>, 9),
  T(8, Both, {}, <<Ok, Dispose>>, 0),
  T(9, Yes, {}, <<Fail>>, 0) }

npc_1092015_6 == {
  T(0, Start, {}, <<Say>>, 1),
  T(1, Yes, {}, <<Ok>>, 2),
  T(1, Yes, {}, <<YesNo>>, 3),
  T(2, Yes, {}, <<Say>>, 1),
  T(3, Yes, {}, <<Ok>>, 2),
  T(3, Yes, {Has(4000000, 200), Has(4000134, 100), Has(4000175, 2), Rich(5000000)}, <<Take(4000000, 200),
      Take(4000175, 2), Take(4000134, 100), Pay(5000000), Also("setWatk"), Also("setMatk"), Also("setStr"),
      Also("setDex"), Also("setInt"), Also("setLuk"), Also("setLocked"), Take(Some, Some), Give(Some, Some),
      Also("setBossLog"), Ok>>, 2),
  T(3, No, {}, <<Say>>, 1) }

\* lines 1 to 123 of 1092015_7.js
npc_1092015_7a == {
  T(0, Start, {}, <<Menu>>, 1),
  T(1, Yes, {}, <<Say>>, 2),
  T(1, Yes, {}, <<Say>>, 3),
  T(4, Yes, {}, <<>>, 0) }

\* lines 124 to 510 of 1092015_7.js
npc_1092015_7b == {
  T(2, Yes, {}, <<Ok, Dispose, Also("gainDY"), Ok, Dispose>>, 0),
  T(2, Yes, {}, <<Ok, Dispose, Also("setMp"), Also("gainDY"), Ok, Fail>>, 0),
  T(2, Yes, {}, <<Ok, Dispose, Ok, Dispose>>, 0),
  T(3, Yes, {}, <<Ok, Dispose, Also("gainNX"), Ok, Dispose>>, 0),
  T(3, Yes, {}, <<Ok, Dispose, Also("setHp"), Also("gainNX"), Ok, Fail>>, 0),
  T(3, Yes, {}, <<Ok, Dispose, Ok, Dispose>>, 0),
  T(3, Yes, {}, <<Ok, Dispose>>, 0) }

\* lines 511 to 697 of 1092015_7.js
npc_1092015_7c == {
  T(2, Yes, {}, <<Ok, Dispose, Also("gainDY"), Ok, Dispose>>, 0),
  T(2, Yes, {}, <<Ok, Dispose, Also("setMp"), Also("gainDY"), Ok, Fail>>, 0),
  T(2, Yes, {}, <<Ok, Dispose, Ok, Dispose>>, 0),
  T(2, Yes, {}, <<Also("gainDY"), Ok, Dispose>>, 0),
  T(2, Yes, {}, <<Also("setMp"), Also("gainDY"), Ok, Fail>>, 4),
  T(2, Yes, {}, <<Ok, Dispose>>, 0),
  T(3, Yes, {}, <<Ok, Dispose, Also("gainNX"), Ok, Dispose>>, 0),
  T(3, Yes, {}, <<Ok, Dispose, Also("setHp"), Also("gainNX"), Ok, Fail>>, 0),
  T(3, Yes, {}, <<Also("gainNX"), Ok, Dispose>>, 0),
  T(3, Yes, {}, <<Also("setHp"), Also("gainNX"), Ok, Fail>>, 4) }

npc_1092015_10 == {
  T(0, Start, {}, <<Ok, Dispose>>, 0),
  T(0, Start, {}, <<Menu>>, 1),
  T(1, Yes, {}, <<Ok, Dispose>>, 0),
  T(1, Yes, {}, <<Dispose, OpenNpc>>, 0) }

npc_1092015_20 == {
  T(0, Start, {}, <<Say>>, 1),
  T(1, Yes, {}, <<Ok>>, 2),
  T(1, Yes, {}, <<YesNo>>, 3),
  T(2, Yes, {}, <<Say>>, 1),
  T(3, Yes, {}, <<Ok>>, 2),
  T(3, Yes, {Has(3992010, 100)}, <<Take(3992010, 100), Also("setWatk"), Also("setMatk"), Also("setStr"),
      Also("setDex"), Also("setInt"), Also("setLuk"), Also("setLocked"), Take(Some, Some), Give(Some, Some),
      Also("setBossLog"), Ok>>, 2),
  T(3, Yes, {Has(3992010, 100)}, <<Take(3992010, 100), Also("setWatk"), Also("setMatk"), Also("setStr"),
      Also("setDex"), Also("setInt"), Also("setLuk"), Also("setLocked"), Take(Some, Some), Give(Some, Some),
      Also("setBossLog"), Ok, Fail>>, 4),
  T(3, No, {}, <<Say>>, 1),
  T(4, Yes, {}, <<>>, 0) }

npc_1092015_522 == {
  T(0, Start, {}, <<Ok, Dispose>>, 0),
  T(0, Start, {}, <<Menu>>, 1),
  T(1, Yes, {}, <<Ok, Dispose>>, 0),
  T(1, Yes, {}, <<YesNo>>, 2),
  T(1, Yes, {}, <<YesNo>>, 3),
  T(1, Yes, {}, <<YesNo>>, 4),
  T(1, Yes, {}, <<YesNo>>, 5),
  T(2, Yes, {Rich(10000001)}, <<Take(Some, 1), Give(Some, 1), Pay(10000000), Ok, Dispose>>, 0),
  T(2, Yes, {}, <<Ok, Dispose>>, 0),
  T(2, No, {}, <<Dispose>>, 0),
  T(3, Yes, {}, <<Take(Some, 1), Give(Some, 1), Also("gainNX"), Ok, Dispose>>, 0),
  T(3, Yes, {}, <<Ok, Dispose>>, 0),
  T(3, No, {}, <<Dispose>>, 0),
  T(4, Yes, {Has(4032398, 5)}, <<Take(Some, 1), Give(Some, 1), Take(4032398, 5), Ok, Dispose>>, 0),
  T(4, Yes, {}, <<Ok, Dispose>>, 0),
  T(4, No, {}, <<Dispose>>, 0),
  T(5, Yes, {}, <<Take(Some, 1), Give(Some, 1), Also("setmoneyb"), Ok, Dispose>>, 0),
  T(5, Yes, {}, <<Ok, Dispose>>, 0),
  T(5, No, {}, <<Dispose>>, 0) }

npc_1092090 == {
  T(0, Start, {}, <<Ok, Dispose>>, 0),
  T(0, Start, {}, <<Menu>>, 1),
  T(1, Yes, {}, <<Ok, Dispose>>, 0),
  T(1, Yes, {}, <<Also("gainNX"), Also("gainDY"), Earn(Some), Ok, Dispose>>, 0) }

npc_1092091 == {
  T(0, Start, {}, <<Ok, Dispose>>, 0),
  T(0, Start, {}, <<Menu>>, 1),
  T(1, Yes, {}, <<Ok, Dispose>>, 0),
  T(1, Yes, {}, <<Also("gainNX"), Also("gainDY"), Earn(Some), Ok, Dispose>>, 0) }

npc_1092091_1 == {
  T(0, Start, {}, <<Ok, Dispose>>, 0),
  T(0, Start, {}, <<Menu>>, 1),
  T(1, Yes, {}, <<Ok, Dispose>>, 0),
  T(1, Yes, {}, <<Also("gainNX"), Also("gainDY"), Earn(Some), Ok, Dispose>>, 0) }

npc_1092094 == {
  T(0, Start, {}, <<Ok, Dispose>>, 0),
  T(0, Start, {}, <<Menu>>, 1),
  T(1, Yes, {}, <<Ok, Dispose>>, 0),
  T(1, Yes, {}, <<Also("gainNX"), Also("gainDY"), Earn(Some), Ok, Dispose>>, 0) }

npc_1092094_1 == {
  T(0, Start, {}, <<Ok, Dispose>>, 0),
  T(0, Start, {}, <<Menu>>, 1),
  T(1, Yes, {}, <<Ok, Dispose>>, 0),
  T(1, Yes, {}, <<Also("gainNX"), Also("gainDY"), Earn(Some), Ok, Dispose>>, 0) }

npc_1092095 == {
  T(0, Start, {}, <<Ok, Dispose>>, 0),
  T(0, Start, {}, <<Menu>>, 1),
  T(1, Yes, {}, <<Ok, Dispose>>, 0),
  T(1, Yes, {}, <<Also("gainNX"), Also("gainDY"), Earn(Some), Ok, Dispose>>, 0) }

npc_1092095_1 == {
  T(0, Start, {}, <<Ok, Dispose>>, 0),
  T(0, Start, {}, <<Menu>>, 1),
  T(1, Yes, {}, <<Ok, Dispose>>, 0),
  T(1, Yes, {}, <<Also("gainNX"), Also("gainDY"), Earn(Some), Ok, Dispose>>, 0) }

npc_1200000 == {
  T(0, Start, {}, <<Menu>>, 1),
  T(0, Start, {}, <<Ok, Dispose>>, 0),
  T(1, Yes, {Has(2020014, 30), Has(2020015, 30), Room(0, 3)}, <<Also("setBossLog"), Take(2020015, 30),
      Take(2020014, 30), Give(4000313, 5), Also("gainExp"), Ok, Dispose>>, 0),
  T(1, Yes, {Full(0, 3), Has(2020014, 30), Has(2020015, 30)}, <<Ok, Dispose>>, 0),
  T(1, Yes, {Has(2020015, 30), Lacks(2020014, 30)}, <<Ok, Dispose>>, 0),
  T(1, Yes, {Lacks(2020015, 30)}, <<Ok, Dispose>>, 0),
  T(1, Yes, {}, <<YesNo>>, 2),
  T(2, Yes, {Rich(1000001)}, <<Pay(1000000), Give(2020015, 30), Give(2020014, 30), Dispose>>, 0),
  T(2, Yes, {Poor(1000001)}, <<Ok, Dispose>>, 0),
  T(2, No, {}, <<Dispose>>, 0) }

NpcScripts10Table == [
  npc_1002005 |-> npc_1002005, npc_1012005 |-> npc_1012005, npc_1012008 |-> npc_1012008,
  npc_1012009 |-> npc_1012009, npc_1012103 |-> npc_1012103, npc_1012105 |-> npc_1012105,
  npc_1012112 |-> npc_1012112, npc_1022000 |-> npc_1022000, npc_1022005 |-> npc_1022005,
  npc_1032001 |-> npc_1032001, npc_1032002 |-> npc_1032002, npc_1033002 |-> npc_1033002,
  npc_1052001 |-> npc_1052001, npc_1052004 |-> npc_1052004, npc_1052012 |-> npc_1052012,
  npc_1052014 |-> npc_1052014, npc_1052015 |-> npc_1052015, npc_1061008 |-> npc_1061008,
  npc_1061014 |-> npc_1061014, npc_1092015_2 |-> npc_1092015_2a \cup npc_1092015_2b,
  npc_1092015_3 |-> npc_1092015_3a \cup npc_1092015_3b,
  npc_1092015_4 |-> npc_1092015_4a \cup npc_1092015_4b \cup npc_1092015_4c,
  npc_1092015_5 |-> npc_1092015_5a \cup npc_1092015_5b, npc_1092015_6 |-> npc_1092015_6,
  npc_1092015_7 |-> npc_1092015_7a \cup npc_1092015_7b \cup npc_1092015_7c, npc_1092015_10 |-> npc_1092015_10,
  npc_1092015_20 |-> npc_1092015_20, npc_1092015_522 |-> npc_1092015_522, npc_1092090 |-> npc_1092090,
  npc_1092091 |-> npc_1092091, npc_1092091_1 |-> npc_1092091_1, npc_1092094 |-> npc_1092094,
  npc_1092094_1 |-> npc_1092094_1, npc_1092095 |-> npc_1092095, npc_1092095_1 |-> npc_1092095_1,
  npc_1200000 |-> npc_1200000 ]
================================================================================
