---------------------------- MODULE SpecialScripts -----------------------------
(* Tables of the scripts of special scripts, which other scripts and commands open. *)
EXTENDS ScriptTables

\* special/61活动.js
special_001 == {
  T(0, Start, {}, <<Menu>>, 1),
  T(1, Yes, {}, <<Ok, Dispose>>, 0),
  T(1, Yes, {Has(4000100, 6), Has(4000101, 601), Has(4000109, 601), Has(4000127, 601), Has(4000476, 601),
      Lacks(1102354, 3), Room(1, 1)}, <<Take(4000109, 601), Take(4000476, 601), Take(4000101, 601),
      Take(4000127, 601), Take(4000100, 6), Give(1102354, 1), Dispose>>, 0),
  T(1, Yes, {Has(1102354, 3), Room(1, 1)}, <<Take(1102354, 3), Give(1102354, 1), Dispose>>, 0) }

\* special/9310181公测活动.js
special_002 == {
  T(0, Start, {}, <<Menu>>, 1),
  T(1, Yes, {}, <<Dispose, OpenNpc>>, 0),
  T(1, Yes, {}, <<Dispose, Also("warp")>>, 0),
  T(1, Yes, {}, <<Fail>>, 0) }

\* special/BOSS召唤.js
\* lines 1 to 187 of BOSS召唤.js
special_003a == {
  T(0, Start, {}, <<Menu>>, 1),
  T(1, Yes, {}, <<Ok, Dispose>>, 0),
  T(1, Yes, {Has(4032246, 1)}, <<Also("warpParty"), Also("setBossLog"), Dispose>>, 0),
  T(1, Yes, {Has(4032246, 1)}, <<Also("resetFully"), Also("warpParty"), Also("setBossLog"), Dispose>>, 0),
  T(1, Yes, {}, <<Also("gainNX"), Also("resetBossLog"), Ok, Dispose>>, 0),
  T(1, Yes, {Has(4031179, 1)}, <<Also("warpParty"), Also("setBossLog"), Dispose>>, 0),
  T(1, Yes, {Has(4031179, 1)}, <<Also("resetFully"), Also("warpParty"), Also("setBossLog"), Dispose>>, 0),
  T(1, Yes, {Has(4000175, 1)}, <<Also("resetFully"), Take(4000175, 1), Also("warpParty"), Also("setBossLog"),
      Dispose>>, 0),
  T(1, Yes, {Has(4001017, 1)}, <<Also("warpParty"), Also("setBossLog"), Dispose>>, 0),
  T(1, Yes, {Has(4001017, 1)}, <<Also("resetFully"), Also("warpParty"), Also("setBossLog"), Dispose>>, 0),
  T(1, Yes, {Rich(50000001)}, <<Also("warpParty"), Also("setBossLog"), Dispose>>, 0) }

\* lines 188 to 345 of BOSS召唤.js
special_003b == {
  T(1, Yes, {}, <<Ok, Dispose>>, 0),
  T(1, Yes, {Has(4032246, 1)}, <<Also("warpParty"), Also("setBossLog"), Dispose>>, 0),
  T(1, Yes, {Has(4032246, 1)}, <<Also("resetFully"), Also("warpParty"), Also("setBossLog"), Dispose>>, 0),
  T(1, Yes, {}, <<Also("gainNX"), Also("resetBossLog"), Ok, Dispose>>, 0),
  T(1, Yes, {Has(4031179, 1)}, <<Also("warpParty"), Also("setBossLog"), Dispose>>, 0),
  T(1, Yes, {Has(4031179, 1)}, <<Also("resetFully"), Also("warpParty"), Also("setBossLog"), Dispose>>, 0),
  T(1, Yes, {Has(4000175, 1)}, <<Take(4000175, 1), Also("warpParty"), Also("setBossLog"), Dispose>>, 0),
  T(1, Yes, {Has(4001017, 1)}, <<Also("warpParty"), Also("setBossLog"), Dispose>>, 0),
  T(1, Yes, {Has(4001017, 1)}, <<Also("resetFully"), Also("warpParty"), Also("setBossLog"), Dispose>>, 0),
  T(1, Yes, {Has(5220006, 1)}, <<Take(5220006, 1), Also("warpParty"), Also("setBossLog"), Dispose>>, 0),
  T(1, Yes, {Has(5220006, 1)}, <<Also("resetFully"), Take(5220006, 1), Also("warpParty"), Also("refreshMap"),
      Also("setBossLog"), Dispose>>, 0),
  T(1, Yes, {Rich(50000001)}, <<Also("warpParty"), Also("setBossLog"), Dispose>>, 0),
  T(1, Yes, {Rich(50000001)}, <<Also("resetFully"), Pay(50000000), Also("warpParty"), Also("refreshMap"),
      Fail>>, 0) }

\* lines 346 to 503 of BOSS召唤.js
special_003c == {
  T(1, Yes, {}, <<Ok, Dispose>>, 0),
  T(1, Yes, {}, <<Also("gainNX"), Also("resetBossLog"), Ok, Dispose>>, 0),
  T(1, Yes, {Room(4, 1)}, <<Also("gainNX"), Give(4001017, 1), Ok, Dispose>>, 0),
  T(1, Yes, {Room(4, 1)}, <<Also("gainNX"), Give(4032246, 1), Ok, Dispose>>, 0),
  T(1, Yes, {Room(4, 1)}, <<Also("gainNX"), Give(4031179, 1), Ok, Dispose>>, 0),
  T(1, Yes, {Room(4, 1)}, <<Also("gainNX"), Give(4000175, 1), Ok, Dispose>>, 0) }

\* lines 504 to 763 of BOSS召唤.js
special_003d == {
  T(1, Yes, {}, <<Ok, Dispose>>, 0),
  T(1, Yes, {Room(5, 1)}, <<Also("gainNX"), Give(5220006, 1), Ok, Dispose>>, 0) }

\* special/glyhb.js
special_004 == {
  T(0, Start, {}, <<Menu>>, 1),
  T(0, Start, {}, <<Menu>>, 2),
  T(1, Yes, {}, <<Fail>>, 0),
  T(1, Yes, {}, <<Menu>>, 3),
  T(2, Yes, {}, <<Fail>>, 0),
  T(3, Yes, {}, <<Menu>>, 4),
  T(3, Yes, {}, <<Fail>>, 0),
  T(4, Yes, {}, <<Number>>, 5),
  T(5, Yes, {}, <<Number>>, 6),
  T(5, No, {}, <<Ok, Dispose>>, 0),
  T(6, Yes, {}, <<Fail>>, 0),
  T(6, No, {}, <<Ok, Dispose>>, 0) }

\* special/wjhb.js
\* lines 9 to 163 of wjhb.js
special_005a == {
  T(0, Start, {}, <<Menu>>, 1),
  T(0, Start, {}, <<Menu>>, 2),
  T(1, Yes, {}, <<Menu>>, 3),
  T(1, Yes, {}, <<Menu>>, 4),
  T(2, Yes, {}, <<Menu>>, 4),
  T(3, Yes, {}, <<Menu>>, 5),
  T(4, Yes, {}, <<Menu>>, 5),
  T(5, Yes, {}, <<Number>>, 6),
  T(6, Yes, {}, <<Number>>, 7),
  T(6, No, {}, <<Ok, Dispose>>, 0),
  T(7, Yes, {}, <<Ok>>, 8),
  T(7, No, {}, <<Ok, Dispose>>, 0),
  T(8, Yes, {}, <<Menu>>, 1),
  T(8, Yes, {}, <<Menu>>, 2) }

\* lines 164 to 281 of wjhb.js
special_005b == {
  T(1, Yes, {}, <<Fail>>, 0),
  T(2, Yes, {}, <<Fail>>, 0),
  T(3, Yes, {}, <<Fail>>, 0),
  T(7, Yes, {}, <<Fail>>, 0) }

\* special/七天支援.js
special_006 == {
  T(0, Start, {}, <<Ok, Dispose>>, 0),
  T(0, Start, {}, <<YesNo>>, 1),
  T(1, Yes, {Room(0, 6)}, <<Ok, Dispose>>, 0),
  T(1, Yes, {Room(0, 6)}, <<Also("setPQLog"), Give(5211060, 1), Give(5210000, 1), Give(4001839, 100),
      Give(5151036, 2), Give(5150040, 2), Give(5152053, 2), Give(2022708, 1), Fail>>, 0),
  T(1, Yes, {Full(0, 6)}, <<Dispose>>, 0),
  T(1, No, {}, <<Dispose>>, 0) }

\* special/万能传送.js
\* lines 9 to 161 of 万能传送.js
special_007a == {
  T(0, Start, {}, <<Menu>>, 1),
  T(0, Start, {}, <<Menu>>, 2),
  T(7, No, {}, <<Ok, Dispose>>, 0),
  T(8, No, {}, <<Ok, Dispose>>, 0),
  T(9, No, {}, <<Ok, Dispose>>, 0),
  T(10, No, {}, <<Ok, Dispose>>, 0),
  T(11, No, {}, <<Ok, Dispose>>, 0),
  T(12, No, {}, <<Ok, Dispose>>, 0),
  T(13, No, {}, <<Ok, Dispose>>, 0),
  T(14, No, {}, <<Ok, Dispose>>, 0),
  T(15, No, {}, <<Ok, Dispose>>, 0),
  T(16, No, {}, <<Ok, Dispose>>, 0),
  T(17, No, {}, <<Ok, Dispose>>, 0),
  T(18, No, {}, <<Ok, Dispose>>, 0),
  T(19, No, {}, <<Ok, Dispose>>, 0),
  T(20, No, {}, <<Ok, Dispose>>, 0),
  T(21, No, {}, <<Ok, Dispose>>, 0),
  T(22, No, {}, <<Ok, Dispose>>, 0),
  T(23, No, {}, <<Ok, Dispose>>, 0),
  T(24, No, {}, <<Ok, Dispose>>, 0),
  T(25, No, {}, <<Ok, Dispose>>, 0),
  T(26, No, {}, <<Ok, Dispose>>, 0),
  T(27, No, {}, <<Ok, Dispose>>, 0),
  T(28, No, {}, <<Ok, Dispose>>, 0),
  T(29, No, {}, <<Ok, Dispose>>, 0),
  T(30, No, {}, <<Ok, Dispose>>, 0),
  T(31, Both, {}, <<Ok, Dispose>>, 0),
  T(32, No, {}, <<Ok, Dispose>>, 0) }

\* lines 162 to 329 of 万能传送.js
special_007b == {
  T(1, Yes, {}, <<Menu>>, 3),
  T(1, Yes, {}, <<Menu>>, 4),
  T(1, Yes, {}, <<Menu>>, 5),
  T(1, Yes, {}, <<Menu>>, 6),
  T(1, Yes, {}, <<Dispose, OpenNpc>>, 0),
  T(2, Yes, {}, <<Menu>>, 3),
  T(2, Yes, {}, <<Menu>>, 4),
  T(2, Yes, {}, <<Menu>>, 6),
  T(2, Yes, {}, <<Dispose, OpenNpc>>, 0),
  T(3, Yes, {}, <<YesNo>>, 7),
  T(3, Yes, {}, <<YesNo>>, 8),
  T(3, Yes, {}, <<YesNo>>, 9),
  T(3, Yes, {}, <<YesNo>>, 10),
  T(3, Yes, {}, <<YesNo>>, 11),
  T(3, Yes, {}, <<YesNo>>, 12),
  T(4, Yes, {}, <<YesNo>>, 8),
  T(4, Yes, {}, <<YesNo>>, 13),
  T(4, Yes, {}, <<YesNo>>, 14),
  T(4, Yes, {}, <<YesNo>>, 15),
  T(4, Yes, {}, <<YesNo>>, 16),
  T(4, Yes, {}, <<YesNo>>, 17),
  T(4, Yes, {}, <<YesNo>>, 18),
  T(4, Yes, {}, <<YesNo>>, 19),
  T(4, Yes, {}, <<YesNo>>, 20),
  T(4, Yes, {}, <<YesNo>>, 21),
  T(4, Yes, {}, <<YesNo>>, 22),
  T(4, Yes, {}, <<YesNo>>, 23),
  T(4, Yes, {}, <<YesNo>>, 24),
  T(4, Yes, {}, <<YesNo>>, 25),
  T(4, Yes, {}, <<YesNo>>, 26),
  T(4, Yes, {}, <<YesNo>>, 27),
  T(4, Yes, {}, <<YesNo>>, 28),
  T(4, Yes, {}, <<YesNo>>, 29),
  T(5, Yes, {}, <<YesNo>>, 30),
  T(6, Yes, {}, <<YesNo>>, 31),
  T(6, Yes, {}, <<YesNo>>, 32),
  T(7, Yes, {Rich(100)}, <<Also("warp"), Pay(100), Dispose>>, 0),
  T(7, Yes, {Poor(100)}, <<Ok, Dispose>>, 0),
  T(8, Yes, {Rich(500)}, <<Also("warp"), Pay(500), Dispose>>, 0),
  T(8, Yes, {Poor(500)}, <<Ok, Dispose>>, 0),
  T(9, Yes, {Rich(800)}, <<Also("warp"), Pay(800), Dispose>>, 0),
  T(9, Yes, {Poor(800)}, <<Ok, Dispose>>, 0),
  T(10, Yes, {Rich(1000)}, <<Also("warp"), Pay(1000), Dispose>>, 0),
  T(10, Yes, {Poor(1000)}, <<Ok, Dispose>>, 0),
  T(11, Yes, {Rich(5000)}, <<Also("warp"), Pay(5000), Dispose>>, 0),
  T(11, Yes, {Poor(5000)}, <<Ok, Dispose>>, 0),
  T(12, Yes, {Rich(10000)}, <<Also("warp"), Pay(10000), Dispose>>, 0),
  T(12, Yes, {Poor(10000)}, <<Ok, Dispose>>, 0),
  T(13, Yes, {Rich(580)}, <<Also("warp"), Pay(580), Dispose>>, 0),
  T(13, Yes, {Poor(580)}, <<Ok, Dispose>>, 0),
  T(14, Yes, {Rich(680)}, <<Also("warp"), Pay(680), Dispose>>, 0),
  T(14, Yes, {Poor(680)}, <<Ok, Dispose>>, 0),
  T(15, Yes, {Rich(780)}, <<Also("warp"), Pay(780), Dispose>>, 0),
  T(15, Yes, {Poor(780)}, <<Ok, Dispose>>, 0),
  T(16, Yes, {Rich(880)}, <<Also("warp"), Pay(880), Dispose>>, 0),
  T(16, Yes, {Poor(880)}, <<Ok, Dispose>>, 0),
  T(17, Yes, {Rich(980)}, <<Also("warp"), Pay(980), Dispose>>, 0),
  T(17, Yes, {Poor(980)}, <<Ok, Dispose>>, 0),
  T(18, Yes, {Rich(1180)}, <<Also("warp"), Pay(1180), Dispose>>, 0),
  T(18, Yes, {Poor(1180)}, <<Ok, Dispose>>, 0),
  T(19, Yes, {Rich(1280)}, <<Also("warp"), Pay(1280), Dispose>>, 0),
  T(19, Yes, {Poor(1280)}, <<Ok, Dispose>>, 0),
  T(20, Yes, {Rich(2280)}, <<Also("warp"), Pay(2280), Dispose>>, 0),
  T(20, Yes, {Poor(2280)}, <<Ok, Dispose>>, 0),
  T(21, Yes, {Rich(2380)}, <<Also("warp"), Pay(2380), Dispose>>, 0),
  T(21, Yes, {Poor(2380)}, <<Ok, Dispose>>, 0),
  T(22, Yes, {Rich(2580)}, <<Also("warp"), Pay(2580), Dispose>>, 0),
  T(22, Yes, {Poor(2580)}, <<Ok, Dispose>>, 0),
  T(23, Yes, {Rich(2680)}, <<Also("warp"), Pay(2680), Dispose>>, 0),
  T(23, Yes, {Poor(2680)}, <<Ok, Dispose>>, 0),
  T(24, Yes, {Rich(2780)}, <<Also("warp"), Pay(2780), Dispose>>, 0),
  T(24, Yes, {Poor(2780)}, <<Ok, Dispose>>, 0),
  T(25, Yes, {Rich(2880)}, <<Also("warp"), Pay(2880), Dispose>>, 0),
  T(25, Yes, {Poor(2880)}, <<Ok, Dispose>>, 0),
  T(26, Yes, {Rich(2980)}, <<Also("warp"), Pay(2980), Dispose>>, 0),
  T(26, Yes, {Poor(2980)}, <<Ok, Dispose>>, 0),
  T(27, Yes, {Rich(3080)}, <<Also("warp"), Pay(3080), Dispose>>, 0),
  T(27, Yes, {Poor(3080)}, <<Ok, Dispose>>, 0),
  T(28, Yes, {Rich(3280)}, <<Also("warp"), Pay(3280), Dispose>>, 0),
  T(28, Yes, {Poor(3280)}, <<Ok, Dispose>>, 0),
  T(29, Yes, {Rich(3580)}, <<Also("warp"), Pay(3580), Dispose>>, 0),
  T(29, Yes, {Poor(3580)}, <<Ok, Dispose>>, 0),
  T(30, Yes, {Rich(380000)}, <<Also("warp"), Pay(380000), Dispose>>, 0),
  T(30, Yes, {Poor(380000)}, <<Ok, Dispose>>, 0),
  T(31, Yes, {}, <<Also("warp"), Dispose>>, 0),
  T(31, Both, {}, <<Ok, Dispose>>, 0),
  T(32, Yes, {Rich(10)}, <<Also("warp"), Pay(10), Dispose>>, 0),
  T(32, Yes, {Poor(10)}, <<Ok, Dispose>>, 0) }

\* special/二段跳.js
special_008 == {
  T(0, Start, {}, <<Menu>>, 1),
  T(1, Yes, {}, <<Also("setmoneyb"), Also("changeKeymap"), Ok, Dispose>>, 0),
  T(1, Yes, {}, <<Ok, Dispose>>, 0),
  T(1, Yes, {}, <<Also("changeKeymap"), Ok, Dispose>>, 0) }

\* special/伴伴BOSS.js
special_009 == {
  T(0, Start, {}, <<Menu>>, 1),
  T(0, Start, {}, <<Menu>>, 2),
  T(0, Start, {}, <<Menu>>, 3),
  T(1, Yes, {}, <<Also("warp"), Dispose>>, 0),
  T(1, Yes, {}, <<Ok, Dispose>>, 0),
  T(1, Yes, {Room(2, 1)}, <<Give(2049401, 8), Ok, Also("setBossLog"), Dispose>>, 0),
  T(2, Yes, {}, <<Ok, Dispose>>, 0),
  T(2, Yes, {Rich(20000000)}, <<Pay(20000000), Also("spawnMobOnMap"), Also("setBossLog"), Ok, Dispose>>, 0),
  T(2, Yes, {}, <<Also("warp"), Dispose>>, 0),
  T(3, Yes, {}, <<Also("warp"), Dispose>>, 0),
  T(3, Yes, {}, <<Ok, Dispose>>, 0) }

\* special/作者感言.js
special_010 == {
  T(0, Start, {}, <<Ok, Dispose>>, 0) }

\* special/偷学技能.js
special_011 == {
  T(0, Start, {}, <<Menu>>, 1),
  T(1, Yes, {}, <<Dispose, OpenNpc>>, 0) }

\* special/元宝勋章升星.js
\* lines 1 to 147 of 元宝勋章升星.js
special_012a == {
  T(0, Start, {}, <<Say>>, 1),
  T(1, Yes, {}, <<Ok, Dispose>>, 0),
  T(1, Yes, {}, <<YesNo>>, 2),
  T(1, Yes, {}, <<YesNo>>, 3),
  T(2, Yes, {}, <<Ok, Dispose>>, 0),
  T(2, Yes, {}, <<Say>>, 4),
  T(2, No, {}, <<Say>>, 5),
  T(3, Yes, {}, <<Ok, Dispose>>, 0),
  T(3, No, {}, <<Say>>, 1),
  T(5, Yes, {}, <<Ok, Dispose>>, 0),
  T(5, Yes, {}, <<YesNo>>, 2) }

\* lines 148 to 263 of 元宝勋章升星.js
special_012b == {
  T(2, Yes, {}, <<Ok, Dispose>>, 0),
  T(2, Yes, {}, <<Say>>, 4),
  T(4, Yes, {}, <<Also("gainNX"), Also("setFlag"), Also("setStr"), Also("setDex"), Also("setInt"),
      Also("setLuk"), Also("setHp"), Also("setMp"), Also("setWatk"), Also("setMatk"), Also("setWdef"),
      Also("setMdef"), Also("setAcc"), Also("setAvoid"), Also("setHands"), Also("setSpeed"), Also("setJump"),
      Also("setOwner"), Dispose, Take(Some, Some), Give(Some, Some), Ok, Dispose>>, 0),
  T(4, Yes, {}, <<Also("gainNX"), Ok, Dispose>>, 0),
  T(4, Yes, {}, <<Ok, Dispose>>, 0) }

\* special/元宝戒指升星.js
\* lines 1 to 152 of 元宝戒指升星.js
special_013a == {
  T(0, Start, {}, <<Say>>, 1),
  T(1, Yes, {}, <<Ok, Dispose>>, 0),
  T(1, Yes, {}, <<YesNo>>, 2),
  T(1, Yes, {}, <<YesNo>>, 3),
  T(2, Yes, {}, <<Ok, Dispose>>, 0),
  T(2, Yes, {}, <<Say>>, 4),
  T(2, No, {}, <<Say>>, 5),
  T(3, Yes, {}, <<Ok, Dispose>>, 0),
  T(3, No, {}, <<Say>>, 1),
  T(5, Yes, {}, <<Ok, Dispose>>, 0),
  T(5, Yes, {}, <<YesNo>>, 2) }

\* lines 153 to 268 of 元宝戒指升星.js
special_013b == {
  T(2, Yes, {}, <<Ok, Dispose>>, 0),
  T(2, Yes, {}, <<Say>>, 4),
  T(4, Yes, {}, <<Also("gainNX"), Also("setFlag"), Also("setStr"), Also("setDex"), Also("setInt"),
      Also("setLuk"), Also("setHp"), Also("setMp"), Also("setWatk"), Also("setMatk"), Also("setWdef"),
      Also("setMdef"), Also("setAcc"), Also("setAvoid"), Also("setHands"), Also("setSpeed"), Also("setJump"),
      Also("setOwner"), Dispose, Take(Some, Some), Give(Some, Some), Ok, Dispose>>, 0),
  T(4, Yes, {}, <<Also("gainNX"), Ok, Dispose>>, 0),
  T(4, Yes, {}, <<Ok, Dispose>>, 0) }

\* special/元宝武器升星.js
\* lines 8 to 152 of 元宝武器升星.js
special_014a == {
  T(0, Start, {}, <<Say>>, 1),
  T(1, Yes, {}, <<Ok, Dispose>>, 0),
  T(1, Yes, {}, <<YesNo>>, 2),
  T(1, Yes, {}, <<YesNo>>, 3),
  T(2, Yes, {}, <<Ok, Dispose>>, 0),
  T(2, Yes, {}, <<Say>>, 4),
  T(2, No, {}, <<Say>>, 5),
  T(3, Yes, {}, <<Ok, Dispose>>, 0),
  T(3, No, {}, <<Say>>, 1),
  T(5, Yes, {}, <<Ok, Dispose>>, 0),
  T(5, Yes, {}, <<YesNo>>, 2) }

\* lines 153 to 268 of 元宝武器升星.js
special_014b == {
  T(2, Yes, {}, <<Ok, Dispose>>, 0),
  T(2, Yes, {}, <<Say>>, 4),
  T(4, Yes, {}, <<Also("gainNX"), Also("setFlag"), Also("setStr"), Also("setDex"), Also("setInt"),
      Also("setLuk"), Also("setHp"), Also("setMp"), Also("setWatk"), Also("setMatk"), Also("setWdef"),
      Also("setMdef"), Also("setAcc"), Also("setAvoid"), Also("setHands"), Also("setSpeed"), Also("setJump"),
      Also("setOwner"), Dispose, Take(Some, Some), Give(Some, Some), Ok, Dispose>>, 0),
  T(4, Yes, {}, <<Also("gainNX"), Ok, Dispose>>, 0),
  T(4, Yes, {}, <<Ok, Dispose>>, 0) }

\* special/兑换中心.js
special_015 == {
  T(0, Start, {}, <<Menu>>, 1),
  T(1, Yes, {}, <<Dispose, OpenNpc>>, 0) }

\* special/全部时装升星.js
\* lines 12 to 172 of 全部时装升星.js
special_016a == {
  T(0, Start, {}, <<Say>>, 1),
  T(1, Yes, {}, <<Ok, Dispose>>, 0),
  T(1, Yes, {}, <<YesNo>>, 2),
  T(1, Yes, {}, <<YesNo>>, 3),
  T(2, Yes, {}, <<Ok, Dispose>>, 0),
  T(2, No, {}, <<Say>>, 4),
  T(3, Yes, {}, <<Ok, Dispose>>, 0),
  T(3, Yes, {}, <<Say>>, 5),
  T(3, No, {}, <<Say>>, 1),
  T(4, Yes, {}, <<Ok, Dispose>>, 0),
  T(4, Yes, {}, <<YesNo>>, 2) }

\* lines 173 to 289 of 全部时装升星.js
special_016b == {
  T(3, Yes, {}, <<Ok, Dispose>>, 0),
  T(3, Yes, {}, <<Say>>, 5),
  T(5, Yes, {}, <<Also("gainNX"), Also("setFlag"), Also("setStr"), Also("setDex"), Also("setInt"),
      Also("setLuk"), Also("setHp"), Also("setMp"), Also("setWatk"), Also("setMatk"), Also("setWdef"),
      Also("setMdef"), Also("setAcc"), Also("setAvoid"), Also("setHands"), Also("setSpeed"), Also("setJump"),
      Also("setOwner"), Dispose, Take(Some, Some), Give(Some, Some), Ok, Dispose>>, 0),
  T(5, Yes, {}, <<Also("gainNX"), Ok, Dispose>>, 0),
  T(5, Yes, {}, <<Ok, Dispose>>, 0) }

\* special/分身技能.js
special_017 == {
  T(0, Start, {}, <<Menu>>, 1),
  T(1, Yes, {}, <<Dispose, OpenNpc>>, 0) }

\* special/分身技能1.js
special_018 == {
  T(0, Start, {}, <<Menu>>, 1),
  T(1, Yes, {}, <<Ok, Dispose>>, 0),
  T(1, Yes, {}, <<Also("setmoneyb"), Also("changeKeymap"), Ok, Dispose>>, 0),
  T(1, Yes, {}, <<Also("changeKeymap"), Ok, Dispose>>, 0) }

\* special/删除角色.js
special_019 == {
  T(0, Start, {}, <<Text>>, 1),
  T(1, Yes, {}, <<Ok, Dispose, Ok, Dispose>>, 0),
  T(1, Yes, {}, <<Ok, Dispose, YesNo>>, 0),
  T(1, Yes, {}, <<Ok, Dispose>>, 0),
  T(1, Yes, {}, <<YesNo>>, 2),
  T(2, Yes, {}, <<Fail>>, 0),
  T(2, No, {}, <<Ok, Dispose>>, 0) }

\* special/勋章强化.js
\* lines 2 to 136 of 勋章强化.js
special_020a == {
  T(0, Start, {}, <<Say>>, 1),
  T(1, Yes, {}, <<Ok, Dispose>>, 0),
  T(1, Yes, {}, <<YesNo>>, 2),
  T(2, Yes, {}, <<Ok, Dispose>>, 0),
  T(2, Yes, {}, <<Say>>, 3),
  T(2, Yes, {}, <<Say>>, 4),
  T(2, Yes, {}, <<Say>>, 5),
  T(2, No, {}, <<Say>>, 1) }

\* lines 137 to 277 of 勋章强化.js
special_020b == {
  T(2, Yes, {}, <<Say>>, 6),
  T(2, Yes, {}, <<Say>>, 7),
  T(2, Yes, {}, <<>>, 0),
  T(3, Yes, {Has(4001126, 200), Has(4310029, 1), Has(4310034, 1), Has(4310148, 1), Rich(100000)},
      <<Pay(100000), Take(4310148, 1), Take(4310034, 1), Take(4310029, 1), Take(4001126, 200),
      Also("setFlag"), Also("setStr"), Also("setDex"), Also("setInt"), Also("setLuk"), Also("setHp"),
      Also("setMp"), Also("setWatk"), Also("setMatk"), Also("setWdef"), Also("setMdef"), Also("setAcc"),
      Also("setAvoid"), Also("setHands"), Also("setSpeed"), Also("setJump"), Also("setOwner"), Dispose,
      Take(Some, Some), Give(Some, Some), Ok, Dispose>>, 0),
  T(3, Yes, {Has(4001126, 200), Has(4310029, 1), Has(4310034, 1), Has(4310148, 1), Rich(100000)},
      <<Pay(100000), Take(4310148, 1), Take(4310034, 1), Take(4310029, 1), Take(4001126, 200), Ok, Dispose>>,
      0),
  T(3, Yes, {Has(4001126, 200), Has(4310029, 1), Has(4310034, 1), Has(4310148, 1), Poor(100000)}, <<Ok,
      Dispose>>, 0),
  T(3, Yes, {Has(4310029, 1), Has(4310034, 1), Has(4310148, 1), Lacks(4001126, 200)}, <<Ok, Dispose>>, 0),
  T(3, Yes, {Has(4310034, 1), Has(4310148, 1), Lacks(4310029, 1)}, <<Ok, Dispose>>, 0),
  T(3, Yes, {Has(4310148, 1), Lacks(4310034, 1)}, <<Ok, Dispose>>, 0),
  T(3, Yes, {Lacks(4310148, 1)}, <<Ok, Dispose>>, 0),
  T(4, Yes, {Has(4001126, 400), Has(4310029, 1), Has(4310034, 1), Has(4310148, 2), Rich(500000)},
      <<Pay(500000), Take(4310148, 2), Take(4310034, 1), Take(4310029, 1), Take(4001126, 400),
      Also("setFlag"), Also("setStr"), Also("setDex"), Also("setInt"), Also("setLuk"), Also("setHp"),
      Also("setMp"), Also("setWatk"), Also("setMatk"), Also("setWdef"), Also("setMdef"), Also("setAcc"),
      Also("setAvoid"), Also("setHands"), Also("setSpeed"), Also("setJump"), Also("setOwner"), Dispose,
      Take(Some, Some), Give(Some, Some), Ok, Dispose>>, 0),
  T(4, Yes, {Has(4001126, 400), Has(4310029, 1), Has(4310034, 1), Has(4310148, 2), Rich(500000)},
      <<Pay(500000), Take(4310148, 2), Take(4310034, 1), Take(4310029, 1), Take(4001126, 400), Ok, Dispose>>,
      0),
  T(4, Yes, {Has(4001126, 400), Has(4310029, 1), Has(4310034, 1), Has(4310148, 2), Poor(500000)}, <<Ok,
      Dispose>>, 0),
  T(4, Yes, {Has(4310029, 1), Has(4310034, 1), Has(4310148, 2), Lacks(4001126, 400)}, <<Ok, Dispose>>, 0),
  T(4, Yes, {Has(4310034, 1), Has(4310148, 2), Lacks(4310029, 1)}, <<Ok, Dispose>>, 0),
  T(4, Yes, {Has(4310148, 2), Lacks(4310034, 1)}, <<Ok, Dispose>>, 0),
  T(4, Yes, {Lacks(4310148, 2)}, <<Ok, Dispose>>, 0),
  T(5, Yes, {Has(4001126, 600), Has(4310029, 1), Has(4310034, 1), Has(4310148, 3), Rich(1000000)},
      <<Pay(1000000), Take(4310148, 3), Take(4310034, 1), Take(4310029, 1), Take(4001126, 600),
      Also("setFlag"), Also("setStr"), Also("setDex"), Also("setInt"), Also("setLuk"), Also("setHp"),
      Also("setMp"), Also("setWatk"), Also("setMatk"), Also("setWdef"), Also("setMdef"), Also("setAcc"),
      Also("setAvoid"), Also("setHands"), Also("setSpeed"), Also("setJump"), Also("setOwner"), Dispose,
      Take(Some, Some), Give(Some, Some), Ok, Dispose>>, 0),
  T(5, Yes, {Has(4001126, 600), Has(4310029, 1), Has(4310034, 1), Has(4310148, 3), Rich(1000000)},
      <<Pay(1000000), Take(4310148, 3), Take(4310034, 1), Take(4310029, 1), Take(4001126, 600), Ok,
      Dispose>>, 0),
  T(5, Yes, {Has(4001126, 600), Has(4310029, 1), Has(4310034, 1), Has(4310148, 3), Poor(1000000)}, <<Ok,
      Dispose>>, 0),
  T(5, Yes, {Has(4310029, 1), Has(4310034, 1), Has(4310148, 3), Lacks(4001126, 600)}, <<Ok, Dispose>>, 0),
  T(5, Yes, {Has(4310034, 1), Has(4310148, 3), Lacks(4310029, 1)}, <<Ok, Dispose>>, 0),
  T(5, Yes, {Has(4310148, 3), Lacks(4310034, 1)}, <<Ok, Dispose>>, 0),
  T(5, Yes, {Lacks(4310148, 3)}, <<Ok, Dispose>>, 0),
  T(6, Yes, {Has(4001126, 800), Has(4310029, 1), Has(4310034, 1), Has(4310148, 4), Rich(1000000)},
      <<Pay(1000000), Take(4310148, 4), Take(4310034, 1), Take(4310029, 1), Take(4001126, 800),
      Also("setFlag"), Also("setStr"), Also("setDex"), Also("setInt"), Also("setLuk"), Also("setHp"),
      Also("setMp"), Also("setWatk"), Also("setMatk"), Also("setWdef"), Also("setMdef"), Also("setAcc"),
      Also("setAvoid"), Also("setHands"), Also("setSpeed"), Also("setJump"), Also("setOwner"), Dispose,
      Take(Some, Some), Give(Some, Some), Ok, Dispose>>, 0),
  T(6, Yes, {Has(4001126, 800), Has(4310029, 1), Has(4310034, 1), Has(4310148, 4), Rich(1000000)},
      <<Pay(1000000), Take(4310148, 4), Take(4310034, 1), Take(4310029, 1), Take(4001126, 800), Ok,
      Dispose>>, 0),
  T(6, Yes, {Has(4001126, 800), Has(4310029, 1), Has(4310034, 1), Has(4310148, 4), Poor(1000000)}, <<Ok,
      Dispose>>, 0),
  T(6, Yes, {Has(4310029, 1), Has(4310034, 1), Has(4310148, 4), Lacks(4001126, 800)}, <<Ok, Dispose>>, 0),
  T(6, Yes, {Has(4310034, 1), Has(4310148, 4), Lacks(4310029, 1)}, <<Ok, Dispose>>, 0),
  T(6, Yes, {Has(4310148, 4), Lacks(4310034, 1)}, <<Ok, Dispose>>, 0),
  T(6, Yes, {Lacks(4310148, 4)}, <<Ok, Dispose>>, 0),
  T(7, Yes, {Has(4001126, 800), Has(4310029, 1), Has(4310034, 1), Has(4310148, 5), Rich(1000000)},
      <<Pay(1000000), Take(4310148, 5), Take(4310034, 1), Take(4310029, 1), Take(4001126, 800),
      Also("setFlag"), Also("setStr"), Also("setDex"), Also("setInt"), Also("setLuk"), Also("setHp"),
      Also("setMp"), Also("setWatk"), Also("setMatk"), Also("setWdef"), Also("setMdef"), Also("setAcc"),
      Also("setAvoid"), Also("setHands"), Also("setSpeed"), Also("setJump"), Also("setOwner"), Dispose,
      Take(Some, Some), Give(Some, Some), Ok, Dispose>>, 0),
  T(7, Yes, {Has(4001126, 800), Has(4310029, 1), Has(4310034, 1), Has(4310148, 5), Rich(1000000)},
      <<Pay(1000000), Take(4310148, 5), Take(4310034, 1), Take(4310029, 1), Take(4001126, 800), Ok,
      Dispose>>, 0),
  T(7, Yes, {Has(4001126, 800), Has(4310029, 1), Has(4310034, 1), Has(4310148, 5), Poor(1000000)}, <<Ok,
      Dispose>>, 0),
  T(7, Yes, {Has(4310029, 1), Has(4310034, 1), Has(4310148, 5), Lacks(4001126, 800)}, <<Ok, Dispose>>, 0),
  T(7, Yes, {Has(4310034, 1), Has(4310148, 5), Lacks(4310029, 1)}, <<Ok, Dispose>>, 0),
  T(7, Yes, {Has(4310148, 5), Lacks(4310034, 1)}, <<Ok, Dispose>>, 0),
  T(7, Yes, {Lacks(4310148, 5)}, <<Ok, Dispose>>, 0) }

\* special/勋章点卷强化.js
\* lines 1 to 145 of 勋章点卷强化.js
special_021a == {
  T(0, Start, {}, <<Say>>, 1),
  T(1, Yes, {}, <<Ok, Dispose>>, 0),
  T(1, Yes, {}, <<YesNo>>, 2),
  T(1, Yes, {}, <<YesNo>>, 3),
  T(2, Yes, {}, <<Ok, Dispose>>, 0),
  T(2, Yes, {}, <<Say>>, 4),
  T(2, No, {}, <<Say>>, 5),
  T(3, Yes, {}, <<Ok, Dispose>>, 0),
  T(3, No, {}, <<Say>>, 1),
  T(5, Yes, {}, <<Ok, Dispose>>, 0),
  T(5, Yes, {}, <<YesNo>>, 2) }

\* lines 146 to 261 of 勋章点卷强化.js
special_021b == {
  T(2, Yes, {}, <<Ok, Dispose>>, 0),
  T(2, Yes, {}, <<Say>>, 4),
  T(4, Yes, {}, <<Also("gainNX"), Also("setFlag"), Also("setStr"), Also("setDex"), Also("setInt"),
      Also("setLuk"), Also("setHp"), Also("setMp"), Also("setWatk"), Also("setMatk"), Also("setWdef"),
      Also("setMdef"), Also("setAcc"), Also("setAvoid"), Also("setHands"), Also("setSpeed"), Also("setJump"),
      Also("setOwner"), Dispose, Take(Some, Some), Give(Some, Some), Ok, Dispose>>, 0),
  T(4, Yes, {}, <<Also("gainNX"), Ok, Dispose>>, 0),
  T(4, Yes, {}, <<Ok, Dispose>>, 0) }

\* special/卡号充值.js
special_022 == {
  T(0, Start, {}, <<Menu>>, 1),
  T(1, Yes, {}, <<Text>>, 2),
  T(2, Yes, {}, <<Ok, Dispose, YesNo>>, 0),
  T(2, Yes, {}, <<YesNo>>, 3),
  T(3, Yes, {}, <<Fail>>, 0),
  T(3, No, {}, <<Ok, Dispose>>, 0) }

\* special/原偷学技能.js
special_023 == {
  T(0, Start, {}, <<Menu>>, 1),
  T(1, Yes, {}, <<Ok, Dispose>>, 0),
  T(1, Yes, {}, <<Also("setmoneyb"), Also("changeKeymap"), Ok, Dispose>>, 0),
  T(1, Yes, {}, <<Also("changeKeymap"), Ok, Dispose>>, 0) }

\* special/原地复活.js
special_024 == {
  T(0, Start, {}, <<Menu>>, 1),
  T(1, Yes, {}, <<Ok, Dispose>>, 0),
  T(1, Yes, {}, <<Also("executeUpdate"), Also("setHp"), Dispose>>, 0) }

\* special/合成中心.js
special_025 == {
  T(0, Start, {}, <<Menu>>, 1),
  T(1, Yes, {}, <<Dispose, OpenNpc>>, 0) }

\* special/吸怪开关.js
special_026 == {
  T(0, Start, {}, <<Dispose, OpenNpc>>, 0),
  T(0, Start, {}, <<Dispose>>, 0),
  T(0, Start, {}, <<Menu>>, 1),
  T(1, Yes, {}, <<Dispose, Fail>>, 0) }

\* special/四转技能.js
\* lines 7 to 179 of 四转技能.js
special_027a == {
  T(0, Start, {}, <<Menu>>, 1) }

\* lines 180 to 268 of 四转技能.js
special_027b == {
  T(1, Yes, {}, <<Menu>>, 2),
  T(1, Yes, {}, <<Ok, Dispose>>, 0),
  T(2, Yes, {Has(4001129, 5)}, <<Take(4001129, 5), Also("teachSkill"), Ok, Dispose>>, 0),
  T(2, Yes, {Lacks(4001129, 5)}, <<Also("setmoneyb"), Also("teachSkill"), Ok, Dispose>>, 0),
  T(2, Yes, {}, <<Ok, Dispose>>, 0) }

\* special/在线奖励-同一账号所有角色可领.js
special_028 == {
  T(0, Start, {}, <<Menu>>, 1),
  T(0, Start, {}, <<Menu>>, 2),
  T(0, Start, {}, <<Menu>>, 3),
  T(0, Start, {}, <<Menu>>, 4),
  T(0, Start, {}, <<Menu>>, 5),
  T(1, Yes, {Has(5030001, 1)}, <<Ok, Dispose>>, 0),
  T(1, Yes, {Has(5030000, 1), Lacks(5030001, 1)}, <<Ok, Dispose>>, 0),
  T(1, Yes, {Lacks(5030000, 1), Lacks(5030001, 1)}, <<Give(5030001, 1), Ok, Dispose>>, 0),
  T(1, Yes, {}, <<Give(2000019, 50), Also("gainGamePointsPD"), Also("setBossLog"), Dispose>>, 0),
  T(2, Yes, {Has(5030001, 1)}, <<Ok, Dispose>>, 0),
  T(2, Yes, {Has(5030000, 1), Lacks(5030001, 1)}, <<Ok, Dispose>>, 0),
  T(2, Yes, {Lacks(5030000, 1), Lacks(5030001, 1)}, <<Give(5030001, 1), Ok, Dispose>>, 0),
  T(2, Yes, {}, <<Give(2340000, 2), Give(2049100, 2), Also("gainGamePointsPD"), Also("setBossLog"),
      Dispose>>, 0),
  T(3, Yes, {Has(5030001, 1)}, <<Ok, Dispose>>, 0),
  T(3, Yes, {Has(5030000, 1), Lacks(5030001, 1)}, <<Ok, Dispose>>, 0),
  T(3, Yes, {Lacks(5030000, 1), Lacks(5030001, 1)}, <<Give(5030001, 1), Ok, Dispose>>, 0),
  T(3, Yes, {}, <<Give(4310030, 1), Also("gainGamePointsPD"), Also("setBossLog"), Dispose>>, 0),
  T(4, Yes, {Has(5030001, 1)}, <<Ok, Dispose>>, 0),
  T(4, Yes, {Has(5030000, 1), Lacks(5030001, 1)}, <<Ok, Dispose>>, 0),
  T(4, Yes, {Lacks(5030000, 1), Lacks(5030001, 1)}, <<Give(5030001, 1), Ok, Dispose>>, 0),
  T(4, Yes, {}, <<Also("gainNX"), Also("gainGamePointsPD"), Ok, Dispose>>, 0),
  T(5, Yes, {Has(5030001, 1)}, <<Ok, Dispose>>, 0),
  T(5, Yes, {Has(5030000, 1), Lacks(5030001, 1)}, <<Ok, Dispose>>, 0),
  T(5, Yes, {Lacks(5030000, 1), Lacks(5030001, 1)}, <<Give(5030001, 1), Ok, Dispose>>, 0) }

\* special/坐骑升星.js
\* lines 8 to 206 of 坐骑升星.js
special_029a == {
  T(0, Start, {}, <<Say>>, 1),
  T(1, Yes, {}, <<Ok, Dispose>>, 0),
  T(1, Yes, {}, <<YesNo>>, 2),
  T(1, Yes, {}, <<YesNo>>, 3),
  T(2, Yes, {}, <<Ok, Dispose>>, 0),
  T(2, Yes, {}, <<Say>>, 4),
  T(2, No, {}, <<Say>>, 5),
  T(3, Yes, {}, <<Ok, Dispose>>, 0),
  T(3, No, {}, <<Say>>, 1),
  T(5, Yes, {}, <<Ok, Dispose>>, 0),
  T(5, Yes, {}, <<YesNo>>, 2) }

\* lines 207 to 367 of 坐骑升星.js
special_029b == {
  T(2, Yes, {}, <<Ok, Dispose>>, 0),
  T(2, Yes, {}, <<Say>>, 4),
  T(4, Yes, {}, <<Also("gainNX"), Also("setFlag"), Also("setStr"), Also("setDex"), Also("setInt"),
      Also("setLuk"), Also("setHp"), Also("setMp"), Also("setWatk"), Also("setMatk"), Also("setWdef"),
      Also("setMdef"), Also("setAcc"), Also("setAvoid"), Also("setHands"), Also("setSpeed"), Also("setJump"),
      Also("setOwner"), Dispose, Take(Some, Some), Give(Some, Some), Ok, Dispose>>, 0),
  T(4, Yes, {}, <<Also("gainNX"), Ok, Dispose>>, 0),
  T(4, Yes, {}, <<Ok, Dispose>>, 0) }

\* special/大姐大租借装备.js
\* lines 6 to 116 of 大姐大租借装备.js
special_030a == {
  T(0, Start, {}, <<Menu>>, 1),
  T(1, Yes, {Has(5220007, 1)}, <<Give(1302208, 1), Take(5220007, 1), Ok, Dispose>>, 0),
  T(1, Yes, {}, <<Ok, Dispose>>, 0),
  T(1, Yes, {Has(5220007, 1)}, <<Give(1332025, 1), Take(5220007, 1), Ok, Dispose>>, 0) }

\* lines 117 to 253 of 大姐大租借装备.js
special_030b == {
  T(1, Yes, {}, <<Ok, Dispose>>, 0),
  T(1, Yes, {Has(5220007, 1)}, <<Give(1382012, 1), Take(5220007, 1), Ok, Dispose>>, 0),
  T(1, Yes, {Has(5220007, 1)}, <<Give(1452022, 1), Take(5220007, 1), Ok, Dispose>>, 0),
  T(1, Yes, {Has(5220007, 1)}, <<Give(1462019, 1), Take(5220007, 1), Ok, Dispose>>, 0),
  T(1, Yes, {Has(5220007, 1)}, <<Give(1472032, 1), Take(5220007, 1), Ok, Dispose>>, 0),
  T(1, Yes, {Has(5220007, 1)}, <<Give(1482041, 1), Take(5220007, 1), Ok, Dispose>>, 0),
  T(1, Yes, {Has(5220007, 1)}, <<Give(1492042, 1), Take(5220007, 1), Ok, Dispose>>, 0),
  T(1, Yes, {Has(5220007, 1)}, <<Give(1432012, 1), Take(5220007, 1), Ok, Dispose>>, 0),
  T(1, Yes, {Has(5220007, 1)}, <<Give(1442024, 1), Take(5220007, 1), Ok, Dispose>>, 0) }

\* special/大蛇丸BOSS.js
special_031 == {
  T(0, Start, {}, <<Menu>>, 1),
  T(0, Start, {}, <<Menu>>, 2),
  T(0, Start, {}, <<Menu>>, 3),
  T(1, Yes, {}, <<Also("warp"), Dispose>>, 0),
  T(1, Yes, {}, <<Ok, Dispose>>, 0),
  T(1, Yes, {Room(2, 1)}, <<Give(2049401, 4), Ok, Also("setBossLog"), Dispose>>, 0),
  T(2, Yes, {}, <<Ok, Dispose>>, 0),
  T(2, Yes, {Rich(20000000)}, <<Pay(20000000), Also("spawnMobOnMap"), Also("setBossLog"), Ok, Dispose>>, 0),
  T(2, Yes, {}, <<Also("warp"), Dispose>>, 0),
  T(3, Yes, {}, <<Also("warp"), Dispose>>, 0),
  T(3, Yes, {}, <<Ok, Dispose>>, 0) }

\* special/女皇BOSS.js
special_032 == {
  T(0, Start, {}, <<Menu>>, 1),
  T(0, Start, {}, <<Menu>>, 2),
  T(0, Start, {}, <<Menu>>, 3),
  T(1, Yes, {}, <<Also("warp"), Dispose>>, 0),
  T(1, Yes, {}, <<Ok, Dispose>>, 0),
  T(1, Yes, {}, <<Earn(520), Ok, Also("setBossLog"), Dispose>>, 0),
  T(2, Yes, {}, <<Ok, Dispose>>, 0),
  T(2, Yes, {Rich(20000000)}, <<Pay(20000000), Also("spawnMobOnMap"), Also("setBossLog"), Ok, Dispose>>, 0),
  T(2, Yes, {}, <<Also("warp"), Dispose>>, 0),
  T(3, Yes, {}, <<Also("warp"), Dispose>>, 0),
  T(3, Yes, {}, <<Ok, Dispose>>, 0) }

\* special/学习技能.js
special_033 == {
  T(0, Start, {}, <<Menu>>, 1),
  T(1, Yes, {}, <<Ok, Dispose>>, 0),
  T(1, Yes, {}, <<Also("teachSkill"), Also("setBossLog"), Ok, Dispose>>, 0) }

\* special/家族任务.js
special_034 == {
  T(0, Start, {}, <<Fail>>, 0) }

\* special/家族任务排名.js
special_035 == {
  T(0, Start, {}, <<Menu>>, 1),
  T(1, Yes, {}, <<Fail>>, 0),
  T(1, Yes, {}, <<Ok, Dispose>>, 0) }

\* special/家族排行.js
special_036 == {
  T(0, Start, {}, <<Menu>>, 1),
  T(1, Yes, {}, <<Fail>>, 0),
  T(1, Yes, {}, <<Ok, Dispose>>, 0) }

\* special/屏蔽物品.js
special_037 == {
  T(0, Start, {}, <<Menu>>, 1),
  T(1, Yes, {}, <<Number>>, 2),
  T(2, Yes, {}, <<Ok, Dispose>>, 0),
  T(2, Yes, {}, <<Also("setBossRankCount"), Ok, Dispose>>, 0),
  T(2, No, {}, <<Menu>>, 1) }

\* special/师徒戒指升星.js
\* lines 8 to 145 of 师徒戒指升星.js
special_038a == {
  T(0, Start, {}, <<Say>>, 1),
  T(1, Yes, {}, <<Ok, Dispose>>, 0),
  T(1, Yes, {}, <<YesNo>>, 2),
  T(1, Yes, {}, <<YesNo>>, 3),
  T(2, Yes, {}, <<Ok, Dispose>>, 0),
  T(2, Yes, {}, <<Say>>, 4),
  T(2, No, {}, <<Say>>, 5),
  T(3, Yes, {}, <<Ok, Dispose>>, 0),
  T(3, No, {}, <<Say>>, 1),
  T(5, Yes, {}, <<Ok, Dispose>>, 0),
  T(5, Yes, {}, <<YesNo>>, 2) }

\* lines 146 to 270 of 师徒戒指升星.js
special_038b == {
  T(2, Yes, {}, <<Ok, Dispose>>, 0),
  T(2, Yes, {}, <<Say>>, 4),
  T(4, Yes, {}, <<Also("gainjf9"), Also("setFlag"), Also("setStr"), Also("setDex"), Also("setInt"),
      Also("setLuk"), Also("setHp"), Also("setMp"), Also("setWatk"), Also("setMatk"), Also("setWdef"),
      Also("setMdef"), Also("setAcc"), Also("setAvoid"), Also("setHands"), Also("setSpeed"), Also("setJump"),
      Also("setOwner"), Dispose, Take(Some, Some), Give(Some, Some), Ok, Dispose>>, 0),
  T(4, Yes, {}, <<Also("gainjf9"), Ok, Dispose>>, 0),
  T(4, Yes, {}, <<Ok, Dispose>>, 0) }

\* special/师徒系统.js
special_039 == {
  T(0, Start, {}, <<Menu>>, 1),
  T(1, Yes, {}, <<Ok, Dispose>>, 0),
  T(1, Yes, {}, <<Text>>, 2),
  T(1, Yes, {}, <<Menu>>, 3),
  T(2, Yes, {}, <<Ok, Dispose>>, 0),
  T(2, Yes, {}, <<Also("setStLog"), Ok, Dispose>>, 0),
  T(3, Yes, {}, <<Ok, Dispose>>, 0),
  T(3, Yes, {Room(1, 3), Room(2, 3), Room(3, 3), Room(4, 3), Room(5, 3)}, <<Also("setBossLog"),
      Also("updateStjfLog"), Also("modifyCSPoints"), Ok, Dispose>>, 0),
  T(3, Yes, {Room(1, 3), Room(2, 3), Room(3, 3), Room(4, 3), Room(5, 3)}, <<Also("setBossLog"),
      Also("updateStjfLog"), Give(5220000, 30), Ok, Dispose>>, 0),
  T(3, Yes, {Room(1, 3), Room(2, 3), Room(3, 3), Room(4, 3), Room(5, 3)}, <<Also("setBossLog"),
      Also("updateStjfLog"), Give(4031408, 10), Ok, Dispose>>, 0),
  T(3, Yes, {Room(1, 3), Room(2, 3), Room(3, 3), Room(4, 3), Room(5, 3)}, <<Also("setBossLog"),
      Also("updateStjfLog"), Give(2450000, 2), Ok, Dispose>>, 0),
  T(3, Yes, {Room(1, 3), Room(2, 3), Room(3, 3), Room(4, 3), Room(5, 3)}, <<Also("setBossLog"),
      Also("updateStjfLog"), Give(2049100, 5), Ok, Dispose>>, 0),
  T(3, Yes, {Room(1, 3), Room(2, 3), Room(3, 3), Room(4, 3), Room(5, 3)}, <<Also("setBossLog"),
      Also("updateStjfLog"), Give(5062001, 30), Ok, Dispose>>, 0),
  T(3, Yes, {Room(1, 3), Room(2, 3), Room(3, 3), Room(4, 3), Room(5, 3)}, <<Also("setBossLog"),
      Also("updateStjfLog"), Give(2340000, 5), Ok, Dispose>>, 0),
  T(3, Yes, {Room(1, 3), Room(2, 3), Room(3, 3), Room(4, 3), Room(5, 3)}, <<Also("setBossLog"),
      Also("updateStjfLog"), Give(2049302, 2), Give(2049412, 1), Give(5064000, 1), Ok, Dispose>>, 0),
  T(3, Yes, {Room(1, 3), Room(2, 3), Room(3, 3), Room(4, 3), Room(5, 3)}, <<Also("setBossLog"),
      Also("updateStjfLog"), Give(1143033, 1), Ok, Dispose>>, 0),
  T(3, Yes, {Room(1, 3), Room(2, 3), Room(3, 3), Room(4, 3), Room(5, 3)}, <<>>, 0) }

\* special/希拉BOSS.js
special_040 == {
  T(0, Start, {}, <<Menu>>, 1),
  T(0, Start, {}, <<Menu>>, 2),
  T(0, Start, {}, <<Menu>>, 3),
  T(1, Yes, {}, <<Also("warp"), Dispose>>, 0),
  T(1, Yes, {}, <<Ok, Dispose>>, 0),
  T(1, Yes, {Room(2, 1)}, <<Give(2049401, 1), Ok, Also("setBossLog"), Dispose>>, 0),
  T(2, Yes, {}, <<Ok, Dispose>>, 0),
  T(2, Yes, {Rich(20000000)}, <<Pay(20000000), Also("spawnMobOnMap"), Also("setBossLog"), Ok, Dispose>>, 0),
  T(2, Yes, {}, <<Also("warp"), Dispose>>, 0),
  T(3, Yes, {}, <<Also("warp"), Dispose>>, 0),
  T(3, Yes, {}, <<Ok, Dispose>>, 0) }

\* special/希纳斯BOSS.js
special_041 == {
  T(0, Start, {}, <<Menu>>, 1),
  T(0, Start, {}, <<Menu>>, 2),
  T(0, Start, {}, <<Menu>>, 3),
  T(1, Yes, {}, <<Also("warp"), Dispose>>, 0),
  T(1, Yes, {}, <<Ok, Dispose>>, 0),
  T(1, Yes, {Room(2, 1)}, <<Give(2049401, 2), Ok, Also("setBossLog"), Dispose>>, 0),
  T(2, Yes, {}, <<Ok, Dispose>>, 0),
  T(2, Yes, {Rich(20000000)}, <<Pay(20000000), Also("spawnMobOnMap"), Also("setBossLog"), Ok, Dispose>>, 0),
  T(2, Yes, {}, <<Also("warp"), Dispose>>, 0),
  T(3, Yes, {}, <<Also("warp"), Dispose>>, 0),
  T(3, Yes, {}, <<Ok, Dispose>>, 0) }

\* special/快捷商店.js
special_042 == {
  T(0, Start, {}, <<Menu>>, 1),
  T(1, Yes, {}, <<OpenShop, Dispose>>, 0) }

\* special/快速洗血.js
special_043 == {
  T(0, Start, {}, <<Menu>>, 1),
  T(1, Yes, {}, <<YesNo>>, 2),
  T(1, Yes, {}, <<YesNo>>, 3),
  T(2, Yes, {}, <<Ok, Dispose>>, 0),
  T(2, Yes, {}, <<Also("setMaxHp"), Also("modifyCSPoints"), Dispose>>, 0),
  T(2, No, {}, <<Dispose>>, 0),
  T(3, Yes, {}, <<Also("setMaxMp"), Also("modifyCSPoints"), Dispose>>, 0),
  T(3, Yes, {}, <<Ok, Dispose>>, 0),
  T(3, No, {}, <<Dispose>>, 0) }

\* special/快速移动.js
special_044 == {
  T(0, Start, {}, <<Menu>>, 1),
  T(1, Yes, {}, <<Also("setmoneyb"), Also("changeKeymap"), Ok, Dispose>>, 0),
  T(1, Yes, {}, <<Ok, Dispose>>, 0),
  T(1, Yes, {}, <<Also("changeKeymap"), Ok, Dispose>>, 0) }

\* special/快速转职.js
\* lines 2 to 144 of 快速转职.js
special_045a == {
  T(0, Start, {}, <<Say>>, 1),
  T(1, Yes, {}, <<Say>>, 2),
  T(1, Yes, {}, <<Ok, Dispose>>, 0),
  T(1, Yes, {}, <<Say>>, 3),
  T(1, Yes, {}, <<Say>>, 4),
  T(1, Yes, {}, <<Menu>>, 5),
  T(1, Yes, {}, <<YesNo>>, 6),
  T(1, Yes, {}, <<YesNo>>, 7),
  T(1, Yes, {}, <<YesNo>>, 8),
  T(1, Yes, {}, <<Say>>, 9),
  T(1, Yes, {}, <<YesNo>>, 10),
  T(15, No, {}, <<Say>>, 2),
  T(15, No, {}, <<Ok, Dispose>>, 0),
  T(15, No, {}, <<Say>>, 3),
  T(15, No, {}, <<Say>>, 4),
  T(15, No, {}, <<Menu>>, 5),
  T(15, No, {}, <<YesNo>>, 6),
  T(15, No, {}, <<YesNo>>, 7),
  T(15, No, {}, <<YesNo>>, 8),
  T(15, No, {}, <<Say>>, 9),
  T(15, No, {}, <<YesNo>>, 10) }

\* lines 145 to 281 of 快速转职.js
special_045b == {
  T(5, Yes, {}, <<YesNo>>, 15),
  T(6, Yes, {}, <<Also("changeJob"), Ok, Dispose>>, 0),
  T(15, Yes, {}, <<Also("changeJob"), Ok, Dispose>>, 0) }

\* lines 282 to 455 of 快速转职.js
special_045c == {
  T(3, Yes, {}, <<Ok, Dispose>>, 0),
  T(6, Yes, {}, <<Also("changeJob"), Ok, Dispose>>, 0),
  T(7, Yes, {}, <<Also("changeJob"), Ok>>, 16),
  T(8, Yes, {}, <<Also("changeJob"), Ok, Also("teachSkill"), Dispose>>, 0) }

\* lines 456 to 597 of 快速转职.js
special_045d == {
  T(8, Yes, {}, <<Also("changeJob"), Ok, Also("teachSkill"), Dispose>>, 0),
  T(9, Yes, {}, <<Menu>>, 17),
  T(10, Yes, {}, <<Also("teachSkill"), Also("changeJob"), Ok, Dispose>>, 0),
  T(10, Yes, {}, <<Ok, Dispose>>, 0),
  T(18, No, {}, <<Menu>>, 17) }

\* lines 598 to 779 of 快速转职.js
special_045e == {
  T(2, Yes, {}, <<YesNo>>, 11),
  T(2, Yes, {}, <<Ok, Dispose>>, 0),
  T(2, Yes, {}, <<Ok>>, 12),
  T(4, Yes, {}, <<Menu>>, 13),
  T(4, Yes, {}, <<Ok, Dispose>>, 0),
  T(4, Yes, {}, <<YesNo>>, 14),
  T(6, No, {}, <<Dispose>>, 0),
  T(7, No, {}, <<Dispose>>, 0),
  T(8, No, {}, <<Dispose>>, 0),
  T(10, No, {}, <<Dispose>>, 0),
  T(11, Yes, {}, <<Also("changeJob"), Also("teachSkill"), Ok, Dispose>>, 0),
  T(11, Both, {}, <<Dispose>>, 0),
  T(11, Yes, {}, <<Also("gainAp"), Also("changeJob"), Also("teachSkill"), Ok, Dispose>>, 0),
  T(11, Yes, {}, <<Also("gainAp"), Also("teachSkill"), Also("changeJob"), Ok, Dispose>>, 0),
  T(12, Yes, {}, <<Also("changeJob"), Also("teachSkill"), Ok, Dispose>>, 0),
  T(12, Yes, {}, <<Dispose>>, 0),
  T(12, Yes, {}, <<Also("gainAp"), Also("changeJob"), Also("teachSkill"), Ok, Dispose>>, 0),
  T(12, Yes, {}, <<Also("gainAp"), Also("teachSkill"), Also("changeJob"), Ok, Dispose>>, 0),
  T(13, Yes, {}, <<Also("changeJob"), Ok, Dispose>>, 0),
  T(13, Yes, {}, <<Dispose>>, 0),
  T(13, Yes, {}, <<Also("gainAp"), Also("changeJob"), Ok, Dispose>>, 0),
  T(14, Yes, {}, <<Also("changeJob"), Ok, Dispose>>, 0),
  T(14, Both, {}, <<Dispose>>, 0),
  T(14, Yes, {}, <<Also("gainAp"), Also("changeJob"), Ok, Dispose>>, 0),
  T(16, Yes, {}, <<Dispose>>, 0),
  T(17, Yes, {}, <<YesNo>>, 18),
  T(18, Yes, {}, <<Also("changeJob"), Ok, Dispose>>, 0) }

\* special/戒指升星.js
special_046 == {
  T(0, Start, {}, <<Menu>>, 1),
  T(1, Yes, {}, <<Dispose, OpenNpc>>, 0) }

\* special/技能学院.js
special_047 == {
  T(0, Start, {}, <<Menu>>, 1),
  T(1, Yes, {}, <<Dispose, OpenNpc>>, 0) }

\* special/拍卖功能.js
\* lines 1 to 129 of 拍卖功能.js
special_048a == {
  T(0, Start, {}, <<Dispose, OpenNpc>>, 0),
  T(0, Start, {}, <<Dispose>>, 0),
  T(0, Start, {}, <<Menu>>, 1),
  T(0, Start, {}, <<Menu>>, 2),
  T(1, Yes, {}, <<Dispose, OpenNpc>>, 0),
  T(1, Yes, {}, <<Also("warp"), Dispose>>, 0),
  T(2, Yes, {}, <<Dispose, OpenNpc>>, 0),
  T(2, Yes, {}, <<Also("warp"), Dispose>>, 0) }

\* lines 130 to 268 of 拍卖功能.js
special_048b == {
  T(1, Yes, {}, <<Dispose, OpenNpc>>, 0),
  T(1, Yes, {}, <<Dispose, Also("warp")>>, 0),
  T(1, Yes, {}, <<Dispose, Earn(210000000), Ok>>, 0),
  T(1, Yes, {}, <<Dispose, Also("gainNX"), Ok>>, 0),
  T(1, Yes, {}, <<Dispose, Also("refreshMap"), Ok>>, 0),
  T(1, Yes, {}, <<Dispose, Also("refresh"), Ok>>, 0),
  T(1, Yes, {}, <<Dispose, Also("warp"), Ok>>, 0),
  T(2, Yes, {}, <<Dispose, OpenNpc>>, 0),
  T(2, Yes, {}, <<Dispose, Also("warp")>>, 0) }

\* special/推广奖励.js
\* lines 2 to 129 of 推广奖励.js
special_049a == {
  T(0, Start, {}, <<Menu>>, 1),
  T(0, Start, {}, <<Menu>>, 2),
  T(0, Start, {}, <<Also("executeUpdate"), Menu>>, 1),
  T(0, Start, {}, <<Also("executeUpdate"), Menu>>, 2),
  T(1, Yes, {}, <<Ok, Dispose>>, 0),
  T(1, Yes, {}, <<Number>>, 4),
  T(2, Yes, {}, <<Ok, Dispose>>, 0),
  T(2, Yes, {}, <<Number>>, 5),
  T(3, No, {}, <<Dispose>>, 0),
  T(4, Yes, {}, <<Ok, Dispose>>, 0),
  T(4, No, {}, <<Dispose>>, 0),
  T(5, Yes, {}, <<Ok, Dispose>>, 0),
  T(5, No, {}, <<Dispose>>, 0),
  T(6, No, {}, <<Dispose>>, 0),
  T(7, No, {}, <<Dispose>>, 0) }

\* lines 130 to 262 of 推广奖励.js
special_049b == {
  T(3, Yes, {}, <<Also("executeUpdate"), Also("gainNX"), Ok, Dispose>>, 0),
  T(3, Yes, {}, <<Ok, Dispose>>, 0),
  T(3, Yes, {}, <<Also("executeUpdate"), Ok, Dispose>>, 0),
  T(4, Yes, {}, <<YesNo>>, 6),
  T(5, Yes, {}, <<Ok, Dispose>>, 0),
  T(5, Yes, {Rich(8000000)}, <<YesNo>>, 7),
  T(6, Yes, {}, <<Also("executeUpdate"), Also("setOneTimeLog"), Ok, Dispose>>, 0),
  T(7, Yes, {}, <<Pay(8000000), Also("executeUpdate"), Also("setOneTimeLog"), Ok, Dispose>>, 0) }

\* lines 263 to 403 of 推广奖励.js
special_049c == {
  T(0, Start, {}, <<Also("executeUpdate"), Menu>>, 1),
  T(0, Start, {}, <<Also("executeUpdate"), Menu>>, 2),
  T(1, Yes, {}, <<Number>>, 3),
  T(1, Yes, {}, <<Also("executeUpdate"), Number>>, 3),
  T(2, Yes, {}, <<Number>>, 3),
  T(2, Yes, {}, <<Also("executeUpdate"), Number>>, 3),
  T(3, Yes, {}, <<Also("executeUpdate"), Also("gainNX"), Ok, Dispose>>, 0),
  T(3, Yes, {}, <<Also("executeUpdate"), Ok, Dispose>>, 0),
  T(6, Yes, {}, <<Also("executeUpdate"), Also("setOneTimeLog"), Ok, Dispose>>, 0) }

\* special/推广戒指.js
\* lines 5 to 100 of 推广戒指.js
special_050a == {
  T(0, Start, {}, <<Menu>>, 1),
  T(0, Start, {}, <<Also("executeUpdate"), Menu>>, 1),
  T(1, Yes, {Lacks(1114314, 1), Rich(2000000), Room(1, 2)}, <<Also("executeUpdate"), Give(1114314, 1),
      Dispose>>, 0),
  T(1, Yes, {}, <<Ok, Dispose>>, 0),
  T(1, Yes, {Rich(2000000), Room(1, 2)}, <<Also("executeUpdate"), Ok, Dispose>>, 0),
  T(1, Yes, {}, <<Dispose, OpenNpc>>, 0) }

\* lines 101 to 309 of 推广戒指.js
special_050b == {
  T(0, Start, {}, <<Also("executeUpdate"), Menu>>, 1),
  T(1, Yes, {Rich(2000000), Room(1, 2)}, <<Also("executeUpdate"), Ok, Dispose>>, 0) }

\* special/时装强化卷轴.js
\* lines 8 to 117 of 时装强化卷轴.js
special_051a == {
  T(0, Start, {}, <<Say>>, 1),
  T(1, Yes, {}, <<Ok, Dispose>>, 0),
  T(1, Yes, {}, <<YesNo>>, 2),
  T(2, Yes, {}, <<Ok, Dispose>>, 0),
  T(2, Yes, {}, <<Say>>, 3),
  T(2, Yes, {}, <<Say>>, 4),
  T(2, Yes, {}, <<Say>>, 5),
  T(2, Yes, {}, <<Say>>, 6),
  T(2, No, {}, <<Say>>, 1) }

\* lines 118 to 258 of 时装强化卷轴.js
special_051b == {
  T(2, Yes, {}, <<Ok, Dispose>>, 0),
  T(2, Yes, {}, <<Say>>, 7),
  T(2, Yes, {}, <<Say>>, 8),
  T(2, Yes, {}, <<Say>>, 9),
  T(2, Yes, {}, <<Say>>, 10),
  T(2, Yes, {}, <<Say>>, 11),
  T(3, Yes, {Has(2049304, 10)}, <<Take(2049304, 10), Also("setFlag"), Also("setStr"), Also("setDex"),
      Also("setInt"), Also("setLuk"), Also("setHp"), Also("setMp"), Also("setWatk"), Also("setMatk"),
      Also("setWdef"), Also("setMdef"), Also("setAcc"), Also("setAvoid"), Also("setHands"), Also("setSpeed"),
      Also("setJump"), Also("setOwner"), Dispose, Take(Some, Some), Give(Some, Some), Ok, Dispose>>, 0),
  T(3, Yes, {Has(2049304, 10)}, <<Take(2049304, 10), Ok, Dispose>>, 0),
  T(3, Yes, {Lacks(2049304, 10)}, <<Ok, Dispose>>, 0),
  T(4, Yes, {Has(2049304, 15)}, <<Take(2049304, 15), Also("setFlag"), Also("setStr"), Also("setDex"),
      Also("setInt"), Also("setLuk"), Also("setHp"), Also("setMp"), Also("setWatk"), Also("setMatk"),
      Also("setWdef"), Also("setMdef"), Also("setAcc"), Also("setAvoid"), Also("setHands"), Also("setSpeed"),
      Also("setJump"), Also("setOwner"), Dispose, Take(Some, Some), Give(Some, Some), Ok, Dispose>>, 0),
  T(4, Yes, {Has(2049304, 15)}, <<Take(2049304, 15), Ok, Dispose>>, 0),
  T(4, Yes, {Lacks(2049304, 15)}, <<Ok, Dispose>>, 0),
  T(5, Yes, {Has(2049304, 20)}, <<Take(2049304, 20), Also("setFlag"), Also("setStr"), Also("setDex"),
      Also("setInt"), Also("setLuk"), Also("setHp"), Also("setMp"), Also("setWatk"), Also("setMatk"),
      Also("setWdef"), Also("setMdef"), Also("setAcc"), Also("setAvoid"), Also("setHands"), Also("setSpeed"),
      Also("setJump"), Also("setOwner"), Dispose, Take(Some, Some), Give(Some, Some), Ok, Dispose>>, 0),
  T(5, Yes, {Has(2049304, 20)}, <<Take(2049304, 20), Ok, Dispose>>, 0),
  T(5, Yes, {Lacks(2049304, 20)}, <<Ok, Dispose>>, 0),
  T(6, Yes, {Has(2049304, 25)}, <<Take(2049304, 25), Also("setFlag"), Also("setStr"), Also("setDex"),
      Also("setInt"), Also("setLuk"), Also("setHp"), Also("setMp"), Also("setWatk"), Also("setMatk"),
      Also("setWdef"), Also("setMdef"), Also("setAcc"), Also("setAvoid"), Also("setHands"), Also("setSpeed"),
      Also("setJump"), Also("setOwner"), Dispose, Take(Some, Some), Give(Some, Some), Ok, Dispose>>, 0),
  T(6, Yes, {Has(2049304, 25)}, <<Take(2049304, 25), Ok, Dispose>>, 0),
  T(6, Yes, {Lacks(2049304, 25)}, <<Ok, Dispose>>, 0),
  T(7, Yes, {Has(2049304, 30)}, <<Take(2049304, 30), Also("setFlag"), Also("setStr"), Also("setDex"),
      Also("setInt"), Also("setLuk"), Also("setHp"), Also("setMp"), Also("setWatk"), Also("setMatk"),
      Also("setWdef"), Also("setMdef"), Also("setAcc"), Also("setAvoid"), Also("setHands"), Also("setSpeed"),
      Also("setJump"), Also("setOwner"), Dispose, Take(Some, Some), Give(Some, Some), Ok, Dispose>>, 0),
  T(7, Yes, {Has(2049304, 30)}, <<Take(2049304, 30), Ok, Dispose>>, 0),
  T(7, Yes, {Lacks(2049304, 30)}, <<Ok, Dispose>>, 0),
  T(8, Yes, {Has(2049304, 35)}, <<Take(2049304, 35), Also("setFlag"), Also("setStr"), Also("setDex"),
      Also("setInt"), Also("setLuk"), Also("setHp"), Also("setMp"), Also("setWatk"), Also("setMatk"),
      Also("setWdef"), Also("setMdef"), Also("setAcc"), Also("setAvoid"), Also("setHands"), Also("setSpeed"),
      Also("setJump"), Also("setOwner"), Dispose, Take(Some, Some), Give(Some, Some), Ok, Dispose>>, 0),
  T(8, Yes, {Has(2049304, 35)}, <<Take(2049304, 35), Ok, Dispose>>, 0),
  T(8, Yes, {Lacks(2049304, 35)}, <<Ok, Dispose>>, 0),
  T(9, Yes, {Has(2049304, 40)}, <<Take(2049304, 40), Also("setFlag"), Also("setStr"), Also("setDex"),
      Also("setInt"), Also("setLuk"), Also("setHp"), Also("setMp"), Also("setWatk"), Also("setMatk"),
      Also("setWdef"), Also("setMdef"), Also("setAcc"), Also("setAvoid"), Also("setHands"), Also("setSpeed"),
      Also("setJump"), Also("setOwner"), Dispose, Take(Some, Some), Give(Some, Some), Ok, Dispose>>, 0),
  T(9, Yes, {Has(2049304, 40)}, <<Take(2049304, 40), Ok, Dispose>>, 0),
  T(9, Yes, {Lacks(2049304, 40)}, <<Ok, Dispose>>, 0),
  T(10, Yes, {Has(2049304, 45)}, <<Take(2049304, 45), Also("setFlag"), Also("setStr"), Also("setDex"),
      Also("setInt"), Also("setLuk"), Also("setHp"), Also("setMp"), Also("setWatk"), Also("setMatk"),
      Also("setWdef"), Also("setMdef"), Also("setAcc"), Also("setAvoid"), Also("setHands"), Also("setSpeed"),
      Also("setJump"), Also("setOwner"), Dispose, Take(Some, Some), Give(Some, Some), Ok, Dispose>>, 0),
  T(10, Yes, {Has(2049304, 45)}, <<Take(2049304, 45), Ok, Dispose>>, 0),
  T(10, Yes, {Lacks(2049304, 45)}, <<Ok, Dispose>>, 0),
  T(11, Yes, {Has(2049304, 80)}, <<Take(2049304, 80), Also("setFlag"), Also("setStr"), Also("setDex"),
      Also("setInt"), Also("setLuk"), Also("setHp"), Also("setMp"), Also("setWatk"), Also("setMatk"),
      Also("setWdef"), Also("setMdef"), Also("setAcc"), Also("setAvoid"), Also("setHands"), Also("setSpeed"),
      Also("setJump"), Also("setOwner"), Dispose, Take(Some, Some), Give(Some, Some), Ok, Dispose>>, 0),
  T(11, Yes, {Has(2049304, 80)}, <<Take(2049304, 80), Ok, Dispose>>, 0),
  T(11, Yes, {Lacks(2049304, 80)}, <<Ok, Dispose>>, 0) }

\* special/时装点卷强化.js
\* lines 8 to 131 of 时装点卷强化.js
special_052a == {
  T(0, Start, {}, <<Say>>, 1),
  T(1, Yes, {}, <<Ok, Dispose>>, 0),
  T(1, Yes, {}, <<YesNo>>, 2),
  T(2, Yes, {}, <<Ok, Dispose>>, 0),
  T(2, Yes, {}, <<Say>>, 3),
  T(2, No, {}, <<Say>>, 1) }

\* lines 132 to 248 of 时装点卷强化.js
special_052b == {
  T(2, Yes, {}, <<Ok, Dispose>>, 0),
  T(2, Yes, {}, <<Say>>, 3),
  T(3, Yes, {}, <<Also("gainNX"), Also("setFlag"), Also("setStr"), Also("setDex"), Also("setInt"),
      Also("setLuk"), Also("setHp"), Also("setMp"), Also("setWatk"), Also("setMatk"), Also("setWdef"),
      Also("setMdef"), Also("setAcc"), Also("setAvoid"), Also("setHands"), Also("setSpeed"), Also("setJump"),
      Also("setOwner"), Dispose, Take(Some, Some), Give(Some, Some), Ok, Dispose>>, 0),
  T(3, Yes, {}, <<Also("gainNX"), Ok, Dispose>>, 0),
  T(3, Yes, {}, <<Ok, Dispose>>, 0) }

\* special/查看奖池.js
special_053 == {
  T(0, Start, {}, <<Dispose, Say, Dispose>>, 0) }

\* special/每日寻宝.js
\* lines 1 to 178 of 每日寻宝.js
special_054a == {
  T(0, Start, {}, <<Also("executeUpdate"), Menu>>, 1),
  T(0, Start, {}, <<Menu>>, 1) }

\* lines 179 to 392 of 每日寻宝.js
special_054b == {
  T(0, Start, {}, <<Also("executeUpdate"), Menu>>, 1),
  T(1, Yes, {Has(4031018, 1)}, <<Earn(Some), Take(4031018, 1), Also("executeUpdate"), Ok, Dispose>>, 0),
  T(1, Yes, {Has(4031018, 1)}, <<Also("modifyCSPoints"), Take(4031018, 1), Also("executeUpdate"), Ok,
      Dispose>>, 0),
  T(1, Yes, {Has(4031018, 1)}, <<Give(Some, Some), Take(4031018, 1), Also("executeUpdate"), Ok, Dispose>>, 0),
  T(1, Yes, {}, <<Ok, Dispose>>, 0),
  T(1, Yes, {Has(4031018, 1)}, <<Take(4031018, 1), Also("executeUpdate"), Ok, Dispose>>, 0) }

\* special/每日签到.js
\* lines 4 to 153 of 每日签到.js
special_055a == {
  T(0, Start, {}, <<Menu>>, 1),
  T(0, Start, {}, <<Ok, Dispose>>, 0),
  T(1, Yes, {}, <<Ok, Dispose>>, 0),
  T(1, Yes, {}, <<Also("setBossLog"), Give(4032398, 1), Give(2000005, 10), Also("gainExp"), Earn(100000),
      Ok>>, 2),
  T(1, Yes, {}, <<Also("setBossLog"), Give(2000005, 50), Also("gainExp"), Earn(300000), Ok>>, 3),
  T(2, Yes, {}, <<Ok, Dispose>>, 0),
  T(2, Yes, {}, <<Also("setBossLog"), Give(4032398, 1), Give(2000005, 10), Also("gainExp"), Earn(100000),
      Ok>>, 2),
  T(3, Yes, {}, <<Ok, Dispose>>, 0),
  T(3, Yes, {}, <<Also("setBossLog"), Give(2000005, 50), Also("gainExp"), Earn(300000), Ok>>, 3) }

\* lines 154 to 398 of 每日签到.js
special_055b == {
  T(1, Yes, {}, <<Ok, Dispose>>, 0),
  T(1, Yes, {}, <<Also("setBossLog"), Give(2000005, 150), Also("gainExp"), Earn(800000), Give(2340000, 1),
      Ok>>, 4),
  T(1, Yes, {}, <<Pay(10000000), Ok>>, 5),
  T(4, Yes, {}, <<Ok, Dispose>>, 0),
  T(4, Yes, {}, <<Also("setBossLog"), Give(2000005, 150), Also("gainExp"), Earn(800000), Give(2340000, 1),
      Ok>>, 4),
  T(5, Yes, {}, <<Ok, Dispose>>, 0),
  T(5, Yes, {}, <<Pay(10000000), Ok>>, 5) }

\* special/每日签到 - 副本.js
\* lines 4 to 164 of 每日签到 - 副本.js
special_056a == {
  T(0, Start, {}, <<Menu>>, 1),
  T(0, Start, {}, <<Ok, Dispose>>, 0),
  T(1, Yes, {}, <<Ok, Dispose>>, 0),
  T(1, Yes, {}, <<Also("setBossLog"), Give(4032398, 1), Give(2000005, 10), Also("gainExp"), Earn(100000),
      Ok>>, 2),
  T(1, Yes, {}, <<Also("setBossLog"), Give(2000005, 50), Also("gainExp"), Earn(300000), Ok>>, 3),
  T(2, Yes, {}, <<Ok, Dispose>>, 0),
  T(2, Yes, {}, <<Also("setBossLog"), Give(4032398, 1), Give(2000005, 10), Also("gainExp"), Earn(100000),
      Ok>>, 2),
  T(3, Yes, {}, <<Ok, Dispose>>, 0),
  T(3, Yes, {}, <<Also("setBossLog"), Give(2000005, 50), Also("gainExp"), Earn(300000), Ok>>, 3) }

\* lines 165 to 409 of 每日签到 - 副本.js
special_056b == {
  T(1, Yes, {}, <<Ok, Dispose>>, 0),
  T(1, Yes, {}, <<Also("setBossLog"), Give(2000005, 150), Also("gainExp"), Earn(800000), Give(2340000, 1),
      Ok>>, 4),
  T(1, Yes, {}, <<Give(2000005, 200), Also("gainExp"), Earn(1000000), Give(2340000, 5), Ok>>, 5),
  T(4, Yes, {}, <<Ok, Dispose>>, 0),
  T(4, Yes, {}, <<Also("setBossLog"), Give(2000005, 150), Also("gainExp"), Earn(800000), Give(2340000, 1),
      Ok>>, 4),
  T(5, Yes, {}, <<Ok, Dispose>>, 0),
  T(5, Yes, {}, <<Give(2000005, 200), Also("gainExp"), Earn(1000000), Give(2340000, 5), Ok>>, 5) }

\* special/氪金中心.js
special_057 == {
  T(0, Start, {}, <<Menu>>, 1),
  T(1, Yes, {}, <<Dispose, OpenNpc>>, 0) }

\* special/氪金中心2.js
special_058 == {
  T(0, Start, {}, <<Menu>>, 1),
  T(1, Yes, {}, <<Dispose, OpenNpc>>, 0) }

\* special/泰山.js
special_059 == {
  T(0, Start, {}, <<Menu>>, 1),
  T(1, Yes, {}, <<Also("setmoneyb"), Also("changeKeymap"), Ok, Dispose>>, 0),
  T(1, Yes, {}, <<Ok, Dispose>>, 0),
  T(1, Yes, {}, <<Also("changeKeymap"), Ok, Dispose>>, 0) }

\* special/满技能.js
special_060 == {
  T(0, Start, {}, <<YesNo>>, 1),
  T(1, Yes, {}, <<Ok, Also("teachSkill"), Dispose>>, 0),
  T(1, Yes, {}, <<Ok, Dispose>>, 0),
  T(1, No, {}, <<>>, 0) }

\* special/火眼.js
special_061 == {
  T(0, Start, {}, <<Menu>>, 1),
  T(1, Yes, {}, <<Also("setmoneyb"), Also("changeKeymap"), Ok, Dispose>>, 0),
  T(1, Yes, {}, <<Ok, Dispose>>, 0),
  T(1, Yes, {}, <<Also("changeKeymap"), Ok, Dispose>>, 0) }

\* special/炫色板升星.js
\* lines 8 to 140 of 炫色板升星.js
special_062a == {
  T(0, Start, {}, <<Say>>, 1),
  T(1, Yes, {}, <<YesNo>>, 2),
  T(1, Yes, {}, <<Ok, Dispose>>, 0),
  T(1, Yes, {}, <<YesNo>>, 3),
  T(2, Yes, {}, <<Ok, Dispose>>, 0),
  T(2, Yes, {}, <<Say>>, 4),
  T(2, No, {}, <<Say>>, 5),
  T(3, Yes, {}, <<Ok, Dispose>>, 0),
  T(3, No, {}, <<Say>>, 1),
  T(5, Yes, {}, <<YesNo>>, 2) }

\* lines 141 to 256 of 炫色板升星.js
special_062b == {
  T(2, Yes, {}, <<Ok, Dispose>>, 0),
  T(2, Yes, {}, <<Say>>, 4),
  T(4, Yes, {}, <<Also("gainNX"), Also("setFlag"), Also("setStr"), Also("setDex"), Also("setInt"),
      Also("setLuk"), Also("setHp"), Also("setMp"), Also("setWatk"), Also("setMatk"), Also("setWdef"),
      Also("setMdef"), Also("setAcc"), Also("setAvoid"), Also("setHands"), Also("setSpeed"), Also("setJump"),
      Also("setOwner"), Dispose, Take(Some, Some), Give(Some, Some), Ok, Dispose>>, 0),
  T(4, Yes, {}, <<Also("gainNX"), Ok, Dispose>>, 0),
  T(4, Yes, {}, <<Ok, Dispose>>, 0) }

\* special/点卷神级强化.js
\* lines 8 to 131 of 点卷神级强化.js
special_063a == {
  T(0, Start, {}, <<Say>>, 1),
  T(1, Yes, {}, <<Ok, Dispose>>, 0),
  T(1, Yes, {}, <<YesNo>>, 2),
  T(2, Yes, {}, <<Ok, Dispose>>, 0),
  T(2, Yes, {}, <<Say>>, 3),
  T(2, No, {}, <<Say>>, 1) }

\* lines 132 to 248 of 点卷神级强化.js
special_063b == {
  T(2, Yes, {}, <<Ok, Dispose>>, 0),
  T(2, Yes, {}, <<Say>>, 3),
  T(3, Yes, {}, <<Also("gainNX"), Also("setFlag"), Also("setStr"), Also("setDex"), Also("setInt"),
      Also("setLuk"), Also("setHp"), Also("setMp"), Also("setWatk"), Also("setMatk"), Also("setWdef"),
      Also("setMdef"), Also("setAcc"), Also("setAvoid"), Also("setHands"), Also("setSpeed"), Also("setJump"),
      Also("setOwner"), Dispose, Take(Some, Some), Give(Some, Some), Ok, Dispose>>, 0),
  T(3, Yes, {}, <<Also("gainNX"), Ok, Dispose>>, 0),
  T(3, Yes, {}, <<Ok, Dispose>>, 0) }

\* special/特色功能.js
special_064 == {
  T(0, Start, {}, <<Menu>>, 1),
  T(1, Yes, {}, <<Ok, Dispose>>, 0),
  T(1, Yes, {Room(4, 1)}, <<Also("gainNX"), Give(4310058, 1), Ok, Dispose>>, 0),
  T(1, Yes, {Room(3, 1)}, <<Also("gainNX"), Give(3994765, 1), Ok, Dispose>>, 0),
  T(1, Yes, {Room(1, 1)}, <<Also("gainNX"), Give(1122017, 1), Ok, Dispose>>, 0) }

\* special/玩家指令查询.js
special_065 == {
  T(0, Start, {}, <<Ok, Dispose>>, 0) }

\* special/男老板BOSS.js
special_066 == {
  T(0, Start, {}, <<Menu>>, 1),
  T(0, Start, {}, <<Say>>, 2),
  T(1, Yes, {}, <<Ok, Dispose>>, 0),
  T(1, Yes, {}, <<Also("refreshMap"), Also("warpParty"), Also("setBossLog"), Dispose>>, 0),
  T(2, Yes, {}, <<>>, 0) }

\* special/男老板BOSS召唤.js
special_067 == {
  T(0, Start, {}, <<Menu>>, 1),
  T(0, Start, {}, <<Menu>>, 2),
  T(0, Start, {}, <<Menu>>, 3),
  T(1, Yes, {}, <<Also("warp"), Dispose>>, 0),
  T(1, Yes, {}, <<Ok, Dispose>>, 0),
  T(1, Yes, {Room(2, 1)}, <<Give(2049401, 1), Ok, Also("setBossLog"), Dispose>>, 0),
  T(2, Yes, {}, <<Ok, Dispose>>, 0),
  T(2, Yes, {Has(4000138, 1)}, <<Take(4000138, 1), Also("spawnMobOnMap"), Also("setBossLog"), Ok, Dispose>>, 0),
  T(2, Yes, {}, <<Also("warp"), Dispose>>, 0),
  T(3, Yes, {}, <<Also("warp"), Dispose>>, 0) }

\* special/破攻升级.js
special_068 == {
  T(0, Start, {}, <<Ok, Dispose>>, 0),
  T(0, Start, {}, <<Menu>>, 1),
  T(1, Yes, {}, <<Ok, Dispose>>, 0),
  T(1, Yes, {Has(4001129, 1), Has(4001254, 1)}, <<Take(4001129, 1), Also("addBreak"), Ok, YesNo, Dispose,
      Take(4001254, 1), Also("addBreak"), Ok, YesNo, Dispose>>, 0),
  T(1, Yes, {Has(4001129, 1), Lacks(4001254, 1)}, <<Take(4001129, 1), Also("addBreak"), Ok, YesNo, Dispose,
      Ok, Dispose>>, 0),
  T(1, Yes, {Has(4001254, 1)}, <<Take(4001254, 1), Also("addBreak"), Ok, YesNo, Dispose>>, 0) }

\* special/砸卷次数.js
special_069 == {
  T(0, Start, {}, <<Ok, Dispose>>, 0),
  T(0, Start, {Has(2049401, 10)}, <<YesNo>>, 1),
  T(0, Start, {Lacks(2049401, 10), Rich(10000000)}, <<YesNo>>, 1),
  T(1, Both, {}, <<Ok, Dispose>>, 0),
  T(1, Yes, {Has(2049401, 10), Rich(10000000)}, <<Pay(10000000), Take(2049401, 10), Ok, Dispose>>, 0),
  T(1, Yes, {Has(2049401, 10), Rich(10000000)}, <<Pay(10000000), Take(2049401, 10), Also("setOwner"),
      Take(Some, Some), Give(Some, Some), Also("setUpgradeSlots"), Also("setBossLog"), Also("refresh"),
      Dispose>>, 0) }

\* special/砸卷次数2.js
special_070 == {
  T(0, Start, {}, <<Ok, Dispose>>, 0),
  T(0, Start, {Has(2049401, 10)}, <<YesNo>>, 1),
  T(0, Start, {Lacks(2049401, 10), Rich(10000000)}, <<YesNo>>, 1),
  T(1, Both, {}, <<Ok, Dispose>>, 0),
  T(1, Yes, {Has(2049401, 10), Rich(10000000)}, <<Pay(10000000), Take(2049401, 10), Ok, Dispose>>, 0),
  T(1, Yes, {Has(2049401, 10), Rich(10000000)}, <<Pay(10000000), Take(2049401, 10), Also("setOwner"),
      Take(Some, Some), Give(Some, Some), Also("setUpgradeSlots"), Also("setBossLog"), Also("refresh"),
      Dispose>>, 0) }

\* special/砸卷次数3.js
special_071 == {
  T(0, Start, {}, <<Ok, Dispose>>, 0),
  T(0, Start, {Has(2049401, 10)}, <<YesNo>>, 1),
  T(0, Start, {Lacks(2049401, 10), Rich(10000000)}, <<YesNo>>, 1),
  T(1, Both, {}, <<Ok, Dispose>>, 0),
  T(1, Yes, {Has(2049401, 10), Rich(10000000)}, <<Pay(10000000), Take(2049401, 10), Ok, Dispose>>, 0),
  T(1, Yes, {Has(2049401, 10), Rich(10000000)}, <<Pay(10000000), Take(2049401, 10), Also("setOwner"),
      Take(Some, Some), Give(Some, Some), Also("setUpgradeSlots"), Also("setBossLog"), Also("refresh"),
      Dispose>>, 0) }

\* special/神圣祈祷.js
special_072 == {
  T(0, Start, {}, <<Menu>>, 1),
  T(1, Yes, {}, <<Also("setmoneyb"), Also("changeKeymap"), Ok, Dispose>>, 0),
  T(1, Yes, {}, <<Ok, Dispose>>, 0),
  T(1, Yes, {}, <<Also("changeKeymap"), Ok, Dispose>>, 0) }

\* special/积分元宝.js
special_073 == {
  T(0, Start, {}, <<Menu>>, 1),
  T(1, Yes, {}, <<Also("setjf3"), Also("gainNX"), Ok, Dispose>>, 0),
  T(1, Yes, {}, <<Say, Dispose>>, 0) }

\* special/等级奖励.js
\* lines 1 to 121 of 等级奖励.js
special_074a == {
  T(0, Start, {}, <<Also("teachSkill"), Menu>>, 1),
  T(0, Start, {}, <<Menu>>, 1),
  T(1, Yes, {}, <<Ok, Dispose>>, 0),
  T(1, Yes, {}, <<Also("setOneTimeLog"), Give(4001126, 100), Earn(300000), Give(2000005, 30), Also("gainDY"),
      Ok, Dispose>>, 0),
  T(1, Yes, {}, <<Also("setOneTimeLog"), Give(4001126, 200), Earn(500000), Give(2000005, 50), Also("gainDY"),
      Ok, Dispose>>, 0),
  T(1, Yes, {}, <<Also("setOneTimeLog"), Earn(1000000), Give(2000005, 100), Also("gainDY"), Give(4001126,
      200), Ok, Dispose>>, 0) }

\* lines 122 to 269 of 等级奖励.js
special_074b == {
  T(1, Yes, {}, <<Ok, Dispose>>, 0),
  T(1, Yes, {}, <<Also("setOneTimeLog"), Give(1003946, 1), Give(1052647, 1), Give(1102612, 1), Give(1082540,
      1), Give(1072853, 1), Give(4001126, 200), Earn(3000000), Give(2000005, 100), Also("gainDY"),
      Also("gainNX"), Ok, Dispose>>, 0),
  T(1, Yes, {}, <<Also("setOneTimeLog"), Give(4001126, 200), Earn(5000000), Give(2000005, 200),
      Also("gainDY"), Also("gainNX"), Ok, Dispose>>, 0),
  T(1, Yes, {}, <<Also("setOneTimeLog"), Give(4001126, 300), Earn(5000000), Give(2000005, 200),
      Also("gainDY"), Also("gainNX"), Ok, Dispose>>, 0),
  T(1, Yes, {}, <<Also("setOneTimeLog"), Give(4001126, 300), Earn(10000000), Give(2000005, 200),
      Also("gainDY"), Also("gainNX"), Ok, Dispose>>, 0) }

\* lines 270 to 387 of 等级奖励.js
special_074c == {
  T(1, Yes, {}, <<Ok, Dispose>>, 0),
  T(1, Yes, {}, <<Also("setOneTimeLog"), Give(4001126, 300), Earn(10000000), Give(2000005, 200),
      Also("gainDY"), Also("gainNX"), Ok, Dispose>>, 0),
  T(1, Yes, {}, <<Also("setOneTimeLog"), Give(4001126, 500), Earn(10000000), Give(2000005, 200),
      Also("gainDY"), Also("gainNX"), Ok, Dispose>>, 0),
  T(1, Yes, {}, <<Also("setOneTimeLog"), Give(4001126, 500), Earn(20000000), Give(2000005, 200),
      Also("gainDY"), Also("gainNX"), Ok, Dispose>>, 0),
  T(1, Yes, {}, <<Also("setOneTimeLog"), Give(4001126, 1000), Earn(10000000), Give(2000005, 200),
      Also("gainDY"), Also("gainNX"), Ok, Dispose>>, 0) }

\* special/等级突破.js
special_075 == {
  T(0, Start, {}, <<Menu>>, 1),
  T(0, Start, {}, <<Say>>, 2),
  T(1, Yes, {}, <<Ok, Dispose>>, 0),
  T(1, Yes, {}, <<Also("setLevel"), Also("setExp"), Also("setOneTimeLog"), Give(4310059, 1), Ok, Dispose>>, 0),
  T(1, Yes, {}, <<Dispose, OpenNpc>>, 0),
  T(2, Yes, {}, <<>>, 0) }

\* special/绝世装备.js
special_076 == {
  T(0, Start, {}, <<Menu>>, 1),
  T(1, Yes, {}, <<Dispose, OpenNpc>>, 0) }

\* special/综合排行.js
\* lines 29 to 254 of 综合排行.js
special_077a == {
  T(0, Start, {}, <<Also("saveToDB"), Menu>>, 1),
  T(0, Start, {}, <<Also("saveToDB"), Menu>>, 2),
  T(0, Start, {}, <<Also("saveToDB"), Menu>>, 3),
  T(0, Start, {}, <<Also("saveToDB"), Menu>>, 4),
  T(1, Yes, {}, <<Also("saveToDB"), Fail>>, 0),
  T(1, Yes, {}, <<Also("saveToDB"), Dispose, OpenNpc>>, 0),
  T(2, Yes, {}, <<Also("saveToDB"), Dispose, OpenNpc>>, 0),
  T(3, Yes, {}, <<Also("saveToDB"), Dispose>>, 0),
  T(3, Yes, {}, <<Also("saveToDB"), Ok, Dispose>>, 0),
  T(3, Yes, {}, <<Also("saveToDB"), Fail>>, 0),
  T(4, Yes, {}, <<Also("saveToDB"), Dispose>>, 0),
  T(4, Yes, {}, <<Also("saveToDB"), Ok, Dispose>>, 0) }

\* lines 255 to 562 of 综合排行.js
special_077b == {
  T(1, Yes, {}, <<Also("saveToDB"), Dispose, OpenNpc>>, 0),
  T(2, Yes, {}, <<Also("saveToDB"), Dispose, OpenNpc>>, 0),
  T(3, Yes, {}, <<Also("saveToDB"), Dispose>>, 0),
  T(4, Yes, {}, <<Also("saveToDB"), Dispose>>, 0) }

\* special/聚合功能.js
\* lines 3 to 105 of 聚合功能.js
special_078a == {
  T(0, Start, {}, <<Menu>>, 1),
  T(1, Yes, {}, <<Dispose, Also("warp")>>, 0) }

\* lines 106 to 260 of 聚合功能.js
special_078b == {
  T(1, Yes, {}, <<Dispose, OpenNpc>>, 0) }

\* special/背包清理.js
special_079 == {
  T(0, Start, {}, <<Menu>>, 1),
  T(1, Yes, {}, <<Dispose, OpenNpc>>, 0) }

\* special/腰带升星.js
\* lines 8 to 146 of 腰带升星.js
special_080a == {
  T(0, Start, {}, <<Say>>, 1),
  T(1, Yes, {}, <<Ok, Dispose>>, 0),
  T(1, Yes, {}, <<YesNo>>, 2),
  T(1, Yes, {}, <<YesNo>>, 3),
  T(2, Yes, {}, <<Ok, Dispose>>, 0),
  T(2, Yes, {}, <<Say>>, 4),
  T(2, No, {}, <<Say>>, 8),
  T(3, Yes, {}, <<Ok, Dispose>>, 0),
  T(3, No, {}, <<Say>>, 1),
  T(8, Yes, {}, <<Ok, Dispose>>, 0),
  T(8, Yes, {}, <<YesNo>>, 2) }

\* lines 147 to 287 of 腰带升星.js
special_080b == {
  T(2, Yes, {}, <<Ok, Dispose>>, 0),
  T(2, Yes, {}, <<Say>>, 4),
  T(2, Yes, {}, <<Say>>, 5),
  T(2, Yes, {}, <<Say>>, 6),
  T(2, Yes, {}, <<Say>>, 7),
  T(4, Yes, {Has(1132004, 2), Rich(10000000)}, <<Take(1132004, 2), Pay(10000000), Also("setFlag"),
      Also("setStr"), Also("setDex"), Also("setInt"), Also("setLuk"), Also("setHp"), Also("setMp"),
      Also("setWatk"), Also("setMatk"), Also("setWdef"), Also("setMdef"), Also("setAcc"), Also("setAvoid"),
      Also("setHands"), Also("setSpeed"), Also("setJump"), Also("setOwner"), Dispose, Take(Some, Some),
      Give(Some, Some), Ok, Dispose>>, 0),
  T(4, Yes, {Has(1132004, 2), Rich(10000000)}, <<Take(1132004, 2), Pay(10000000), Ok, Dispose>>, 0),
  T(4, Yes, {Has(1132004, 2), Poor(10000000)}, <<Ok, Dispose>>, 0),
  T(4, Yes, {Lacks(1132004, 2)}, <<Ok, Dispose>>, 0),
  T(5, Yes, {Has(1132004, 3), Rich(30000000)}, <<Take(1132004, 3), Pay(30000000), Also("setFlag"),
      Also("setStr"), Also("setDex"), Also("setInt"), Also("setLuk"), Also("setHp"), Also("setMp"),
      Also("setWatk"), Also("setMatk"), Also("setWdef"), Also("setMdef"), Also("setAcc"), Also("setAvoid"),
      Also("setHands"), Also("setSpeed"), Also("setJump"), Also("setOwner"), Dispose, Take(Some, Some),
      Give(Some, Some), Ok, Dispose>>, 0),
  T(5, Yes, {Has(1132004, 3), Rich(30000000)}, <<Take(1132004, 3), Pay(30000000), Ok, Dispose>>, 0),
  T(5, Yes, {Has(1132004, 3), Poor(30000000)}, <<Ok, Dispose>>, 0),
  T(5, Yes, {Lacks(1132004, 3)}, <<Ok, Dispose>>, 0),
  T(6, Yes, {Has(1132004, 3), Rich(40000000)}, <<Take(1132004, 3), Pay(40000000), Also("setFlag"),
      Also("setStr"), Also("setDex"), Also("setInt"), Also("setLuk"), Also("setHp"), Also("setMp"),
      Also("setWatk"), Also("setMatk"), Also("setWdef"), Also("setMdef"), Also("setAcc"), Also("setAvoid"),
      Also("setHands"), Also("setSpeed"), Also("setJump"), Also("setOwner"), Dispose, Take(Some, Some),
      Give(Some, Some), Ok, Dispose>>, 0),
  T(6, Yes, {Has(1132004, 3), Rich(40000000)}, <<Take(1132004, 3), Pay(40000000), Ok, Dispose>>, 0),
  T(6, Yes, {Has(1132004, 3), Poor(40000000)}, <<Ok, Dispose>>, 0),
  T(6, Yes, {Lacks(1132004, 3)}, <<Ok, Dispose>>, 0),
  T(7, Yes, {Has(1132004, 3), Rich(50000000)}, <<Take(1132004, 3), Pay(50000000), Also("setFlag"),
      Also("setStr"), Also("setDex"), Also("setInt"), Also("setLuk"), Also("setHp"), Also("setMp"),
      Also("setWatk"), Also("setMatk"), Also("setWdef"), Also("setMdef"), Also("setAcc"), Also("setAvoid"),
      Also("setHands"), Also("setSpeed"), Also("setJump"), Also("setOwner"), Dispose, Take(Some, Some),
      Give(Some, Some), Ok, Dispose>>, 0),
  T(7, Yes, {Has(1132004, 3), Rich(50000000)}, <<Take(1132004, 3), Pay(50000000), Ok, Dispose>>, 0),
  T(7, Yes, {Has(1132004, 3), Poor(50000000)}, <<Ok, Dispose>>, 0),
  T(7, Yes, {Lacks(1132004, 3)}, <<Ok, Dispose>>, 0) }

\* special/自定义活动奖励.js
special_081 == {
  T(0, Start, {}, <<Fail>>, 0),
  T(0, Start, {}, <<Dispose>>, 0) }

\* special/蒲公英升星.js
\* lines 2 to 187 of 蒲公英升星.js
special_082a == {
  T(0, Start, {}, <<Say>>, 1),
  T(1, Yes, {}, <<Ok, Dispose>>, 0),
  T(1, Yes, {}, <<YesNo>>, 2),
  T(1, Yes, {}, <<YesNo>>, 3),
  T(2, Yes, {}, <<Ok, Dispose>>, 0),
  T(2, Yes, {}, <<Say>>, 4),
  T(2, Yes, {}, <<Say>>, 5),
  T(2, No, {}, <<Say>>, 14),
  T(3, Yes, {}, <<Ok, Dispose>>, 0),
  T(3, No, {}, <<Say>>, 1),
  T(14, Yes, {}, <<Ok, Dispose>>, 0),
  T(14, Yes, {}, <<YesNo>>, 2) }

\* lines 188 to 343 of 蒲公英升星.js
special_082b == {
  T(2, Yes, {}, <<Say>>, 6),
  T(2, Yes, {}, <<Say>>, 7),
  T(2, Yes, {}, <<Say>>, 8) }

\* lines 344 to 499 of 蒲公英升星.js
special_082c == {
  T(2, Yes, {}, <<Say>>, 9),
  T(2, Yes, {}, <<Say>>, 10),
  T(2, Yes, {}, <<Say>>, 11) }

\* lines 500 to 651 of 蒲公英升星.js
special_082d == {
  T(2, Yes, {}, <<Ok, Dispose>>, 0),
  T(2, Yes, {}, <<Say>>, 12),
  T(2, Yes, {}, <<Say>>, 13),
  T(4, Yes, {}, <<Ok, Dispose>>, 0),
  T(5, Yes, {}, <<Ok, Dispose>>, 0),
  T(6, Yes, {}, <<Ok, Dispose>>, 0),
  T(7, Yes, {}, <<Ok, Dispose>>, 0),
  T(8, Yes, {}, <<Ok, Dispose>>, 0),
  T(9, Yes, {}, <<Ok, Dispose>>, 0),
  T(10, Yes, {}, <<Ok, Dispose>>, 0),
  T(11, Yes, {}, <<Ok, Dispose>>, 0),
  T(12, Yes, {}, <<Ok, Dispose>>, 0),
  T(13, Yes, {}, <<Ok, Dispose>>, 0) }

\* lines 652 to 798 of 蒲公英升星.js
special_082e == {
  T(4, Yes, {Has(4000016, 200), Has(4000019, 200), Has(4000313, 10), Has(4001126, 500), Rich(500000)},
      <<Take(4000019, 200), Take(4000016, 200), Also("gainNX"), Pay(500000), Take(4000313, 10), Take(4001126,
      500), Also("setFlag"), Also("setStr"), Also("setDex"), Also("setInt"), Also("setLuk"), Also("setHp"),
      Also("setMp"), Also("setWatk"), Also("setMatk"), Also("setWdef"), Also("setMdef"), Also("setAcc"),
      Also("setAvoid"), Also("setHands"), Also("setSpeed"), Also("setJump"), Also("setOwner"), Dispose,
      Take(Some, Some), Give(Some, Some), Ok, Dispose>>, 0),
  T(4, Yes, {Has(4000016, 200), Has(4000019, 200), Has(4000313, 10), Has(4001126, 500), Rich(500000)},
      <<Take(4000019, 200), Take(4000016, 200), Also("gainNX"), Take(4000313, 10), Take(4001126, 500),
      Pay(500000), Ok, Dispose>>, 0),
  T(4, Yes, {}, <<Ok, Dispose>>, 0),
  T(5, Yes, {Has(4000016, 50), Has(4000017, 300), Has(4000019, 50), Has(4000313, 10), Has(4001126, 1000),
      Rich(1000000)}, <<Take(4000019, 50), Take(4000016, 50), Take(4000017, 300), Also("gainNX"),
      Pay(1000000), Take(4000313, 10), Take(4001126, 1000), Also("setFlag"), Also("setStr"), Also("setDex"),
      Also("setInt"), Also("setLuk"), Also("setHp"), Also("setMp"), Also("setWatk"), Also("setMatk"),
      Also("setWdef"), Also("setMdef"), Also("setAcc"), Also("setAvoid"), Also("setHands"), Also("setSpeed"),
      Also("setJump"), Also("setOwner"), Dispose, Take(Some, Some), Give(Some, Some), Ok, Dispose>>, 0),
  T(5, Yes, {Has(4000016, 50), Has(4000017, 300), Has(4000019, 50), Has(4000313, 10), Has(4001126, 1000),
      Rich(1000000)}, <<Take(4000019, 50), Take(4000016, 50), Take(4000017, 300), Also("gainNX"),
      Take(4000313, 10), Take(4001126, 1000), Pay(1000000), Ok, Dispose>>, 0),
  T(5, Yes, {}, <<Ok, Dispose>>, 0),
  T(6, Yes, {Has(4000016, 50), Has(4000017, 50), Has(4000019, 50), Has(4000034, 500), Has(4000313, 10),
      Has(4001126, 1500), Rich(2000000)}, <<Take(4000019, 50), Take(4000016, 50), Take(4000017, 50),
      Take(4000034, 500), Also("gainNX"), Pay(2000000), Take(4000313, 10), Take(4001126, 1500),
      Also("setFlag"), Also("setStr"), Also("setDex"), Also("setInt"), Also("setLuk"), Also("setHp"),
      Also("setMp"), Also("setWatk"), Also("setMatk"), Also("setWdef"), Also("setMdef"), Also("setAcc"),
      Also("setAvoid"), Also("setHands"), Also("setSpeed"), Also("setJump"), Also("setOwner"), Dispose,
      Take(Some, Some), Give(Some, Some), Ok, Dispose>>, 0),
  T(6, Yes, {Has(4000016, 50), Has(4000017, 50), Has(4000019, 50), Has(4000034, 500), Has(4000313, 10),
      Has(4001126, 1500), Rich(2000000)}, <<Take(4000019, 50), Take(4000016, 50), Take(4000017, 50),
      Take(4000034, 500), Also("gainNX"), Take(4000313, 10), Take(4001126, 1500), Pay(2000000), Ok,
      Dispose>>, 0),
  T(6, Yes, {}, <<Ok, Dispose>>, 0),
  T(7, Yes, {Has(4000016, 50), Has(4000017, 50), Has(4000019, 50), Has(4000034, 50), Has(4000177, 1000),
      Has(4000313, 10), Has(4001126, 2000), Rich(4000000)}, <<Take(4000019, 50), Take(4000016, 50),
      Take(4000017, 50), Take(4000034, 50), Take(4000177, 1000), Also("gainNX"), Pay(4000000), Take(4000313,
      10), Take(4001126, 2000), Also("setFlag"), Also("setStr"), Also("setDex"), Also("setInt"),
      Also("setLuk"), Also("setHp"), Also("setMp"), Also("setWatk"), Also("setMatk"), Also("setWdef"),
      Also("setMdef"), Also("setAcc"), Also("setAvoid"), Also("setHands"), Also("setSpeed"), Also("setJump"),
      Also("setOwner"), Dispose, Take(Some, Some), Give(Some, Some), Ok, Dispose>>, 0),
  T(7, Yes, {Has(4000016, 50), Has(4000017, 50), Has(4000019, 50), Has(4000034, 50), Has(4000177, 1000),
      Has(4000313, 10), Has(4001126, 2000), Rich(4000000)}, <<Take(4000019, 50), Take(4000016, 50),
      Take(4000017, 50), Take(4000034, 50), Take(4000177, 1000), Also("gainNX"), Take(4000313, 10),
      Take(4001126, 2000), Pay(4000000), Ok, Dispose>>, 0),
  T(7, Yes, {}, <<Ok, Dispose>>, 0),
  T(8, Yes, {Has(4000016, 100), Has(4000017, 100), Has(4000019, 100), Has(4000034, 100), Has(4000073, 10),
      Has(4000177, 100), Has(4000313, 10), Has(4001126, 4000), Has(4310150, 1), Rich(6000000)},
      <<Take(4000019, 100), Take(4000016, 100), Take(4000017, 100), Take(4000034, 100), Take(4000177, 100),
      Take(4000073, 10), Also("gainNX"), Pay(6000000), Take(4310150, 1), Take(4000313, 10), Take(4001126,
      4000), Also("setFlag"), Also("setStr"), Also("setDex"), Also("setInt"), Also("setLuk"), Also("setHp"),
      Also("setMp"), Also("setWatk"), Also("setMatk"), Also("setWdef"), Also("setMdef"), Also("setAcc"),
      Also("setAvoid"), Also("setHands"), Also("setSpeed"), Also("setJump"), Also("setOwner"), Dispose,
      Take(Some, Some), Give(Some, Some), Ok, Dispose>>, 0),
  T(8, Yes, {Has(4000016, 100), Has(4000017, 100), Has(4000019, 100), Has(4000034, 100), Has(4000073, 10),
      Has(4000177, 100), Has(4000313, 10), Has(4001126, 4000), Has(4310150, 1), Rich(6000000)},
      <<Take(4000019, 100), Take(4000016, 100), Take(4000017, 100), Take(4000034, 100), Take(4000177, 100),
      Take(4000073, 10), Also("gainNX"), Take(4310150, 1), Take(4000313, 10), Take(4001126, 4000),
      Pay(6000000), Ok, Dispose>>, 0),
  T(8, Yes, {}, <<Ok, Dispose>>, 0),
  T(9, Yes, {Has(4000016, 100), Has(4000017, 100), Has(4000019, 100), Has(4000034, 100), Has(4000073, 10),
      Has(4000144, 2000), Has(4000177, 100), Has(4000313, 10), Has(4001126, 5000), Has(4310150, 2),
      Rich(10000000)}, <<Take(4000019, 100), Take(4000016, 100), Take(4000017, 100), Take(4000034, 100),
      Take(4000177, 100), Take(4000073, 10), Take(4000144, 2000), Also("gainNX"), Pay(10000000),
      Take(4310150, 2), Take(4000313, 10), Take(4001126, 5000), Also("setFlag"), Also("setStr"),
      Also("setDex"), Also("setInt"), Also("setLuk"), Also("setHp"), Also("setMp"), Also("setWatk"),
      Also("setMatk"), Also("setWdef"), Also("setMdef"), Also("setAcc"), Also("setAvoid"), Also("setHands"),
      Also("setSpeed"), Also("setJump"), Also("setOwner"), Dispose, Take(Some, Some), Give(Some, Some), Ok,
      Dispose>>, 0),
  T(9, Yes, {Has(4000016, 100), Has(4000017, 100), Has(4000019, 100), Has(4000034, 100), Has(4000073, 10),
      Has(4000144, 2000), Has(4000177, 100), Has(4000313, 10), Has(4001126, 5000), Has(4310150, 2),
      Rich(10000000)}, <<Take(4000019, 100), Take(4000016, 100), Take(4000017, 100), Take(4000034, 100),
      Take(4000177, 100), Take(4000073, 10), Take(4000144, 2000), Also("gainNX"), Take(4310150, 2),
      Take(4000313, 10), Take(4001126, 5000), Pay(10000000), Ok, Dispose>>, 0),
  T(9, Yes, {}, <<Ok, Dispose>>, 0),
  T(10, Yes, {Has(4000016, 100), Has(4000017, 100), Has(4000019, 100), Has(4000034, 100), Has(4000073, 10),
      Has(4000144, 100), Has(4000177, 100), Has(4000242, 2000), Has(4000313, 10), Has(4001126, 8000),
      Has(4310150, 3), Rich(20000000)}, <<Take(4000019, 100), Take(4000016, 100), Take(4000017, 100),
      Take(4000034, 100), Take(4000177, 100), Take(4000073, 10), Take(4000144, 100), Take(4000242, 2000),
      Also("gainNX"), Pay(20000000), Take(4310150, 3), Take(4000313, 10), Take(4001126, 8000),
      Also("setFlag"), Also("setStr"), Also("setDex"), Also("setInt"), Also("setLuk"), Also("setHp"),
      Also("setMp"), Also("setWatk"), Also("setMatk"), Also("setWdef"), Also("setMdef"), Also("setAcc"),
      Also("setAvoid"), Also("setHands"), Also("setSpeed"), Also("setJump"), Also("setOwner"), Dispose,
      Take(Some, Some), Give(Some, Some), Ok, Dispose>>, 0),
  T(10, Yes, {Has(4000016, 100), Has(4000017, 100), Has(4000019, 100), Has(4000034, 100), Has(4000073, 10),
      Has(4000144, 100), Has(4000177, 100), Has(4000242, 2000), Has(4000313, 10), Has(4001126, 8000),
      Has(4310150, 3), Rich(20000000)}, <<Take(4000019, 100), Take(4000016, 100), Take(4000017, 100),
      Take(4000034, 100), Take(4000177, 100), Take(4000073, 10), Take(4000144, 100), Take(4000242, 2000),
      Also("gainNX"), Take(4310150, 3), Take(4000313, 10), Take(4001126, 8000), Pay(20000000), Ok, Dispose>>,
      0),
  T(10, Yes, {}, <<Ok, Dispose>>, 0),
  T(11, Yes, {Has(4000016, 100), Has(4000017, 100), Has(4000019, 100), Has(4000034, 100), Has(4000073, 10),
      Has(4000144, 100), Has(4000177, 100), Has(4000182, 2000), Has(4000242, 100), Has(4000313, 10),
      Has(4001126, 10000), Has(4310150, 4), Rich(30000000)}, <<Take(4000019, 100), Take(4000016, 100),
      Take(4000017, 100), Take(4000034, 100), Take(4000177, 100), Take(4000073, 10), Take(4000144, 100),
      Take(4000242, 100), Take(4000182, 2000), Also("gainNX"), Pay(30000000), Take(4310150, 4), Take(4000313,
      10), Take(4001126, 10000), Also("setFlag"), Also("setStr"), Also("setDex"), Also("setInt"),
      Also("setLuk"), Also("setHp"), Also("setMp"), Also("setWatk"), Also("setMatk"), Also("setWdef"),
      Also("setMdef"), Also("setAcc"), Also("setAvoid"), Also("setHands"), Also("setSpeed"), Also("setJump"),
      Also("setOwner"), Dispose, Take(Some, Some), Give(Some, Some), Ok, Dispose>>, 0),
  T(11, Yes, {Has(4000016, 100), Has(4000017, 100), Has(4000019, 100), Has(4000034, 100), Has(4000073, 10),
      Has(4000144, 100), Has(4000177, 100), Has(4000182, 2000), Has(4000242, 100), Has(4000313, 10),
      Has(4001126, 10000), Has(4310150, 4), Rich(30000000)}, <<Take(4000019, 100), Take(4000016, 100),
      Take(4000017, 100), Take(4000034, 100), Take(4000177, 100), Take(4000073, 10), Take(4000144, 100),
      Take(4000242, 100), Take(4000182, 2000), Also("gainNX"), Take(4310150, 4), Take(4000313, 10),
      Take(4001126, 10000), Pay(30000000), Ok, Dispose>>, 0),
  T(11, Yes, {}, <<Ok, Dispose>>, 0),
  T(12, Yes, {Has(4000016, 100), Has(4000017, 100), Has(4000019, 100), Has(4000034, 100), Has(4000073, 10),
      Has(4000144, 100), Has(4000177, 100), Has(4000182, 100), Has(4000242, 100), Has(4000267, 2000),
      Has(4000313, 10), Has(4001126, 20000), Has(4310150, 5), Rich(50000000)}, <<Take(4000019, 100),
      Take(4000016, 100), Take(4000017, 100), Take(4000034, 100), Take(4000177, 100), Take(4000073, 10),
      Take(4000144, 100), Take(4000242, 100), Take(4000182, 100), Take(4000267, 2000), Also("gainNX"),
      Pay(50000000), Take(4310150, 5), Take(4000313, 10), Take(4001126, 20000), Also("setFlag"),
      Also("setStr"), Also("setDex"), Also("setInt"), Also("setLuk"), Also("setHp"), Also("setMp"),
      Also("setWatk"), Also("setMatk"), Also("setWdef"), Also("setMdef"), Also("setAcc"), Also("setAvoid"),
      Also("setHands"), Also("setSpeed"), Also("setJump"), Also("setOwner"), Dispose, Take(Some, Some),
      Give(Some, Some), Ok, Dispose>>, 0),
  T(12, Yes, {Has(4000016, 100), Has(4000017, 100), Has(4000019, 100), Has(4000034, 100), Has(4000073, 10),
      Has(4000144, 100), Has(4000177, 100), Has(4000182, 100), Has(4000242, 100), Has(4000267, 2000),
      Has(4000313, 10), Has(4001126, 20000), Has(4310150, 5), Rich(50000000)}, <<Take(4000019, 100),
      Take(4000016, 100), Take(4000017, 100), Take(4000034, 100), Take(4000177, 100), Take(4000073, 10),
      Take(4000144, 100), Take(4000242, 100), Take(4000182, 100), Take(4000267, 2000), Also("gainNX"),
      Take(4310150, 5), Take(4000313, 10), Take(4001126, 20000), Pay(50000000), Ok, Dispose>>, 0),
  T(12, Yes, {}, <<Ok, Dispose>>, 0),
  T(13, Yes, {Has(4000016, 100), Has(4000017, 100), Has(4000019, 100), Has(4000034, 100), Has(4000073, 10),
      Has(4000144, 100), Has(4000177, 100), Has(4000182, 100), Has(4000242, 100), Has(4000267, 100),
      Has(4000313, 10), Has(4000451, 2000), Has(4001126, 30000), Has(4310150, 5), Rich(100000000)},
      <<Take(4000019, 100), Take(4000016, 100), Take(4000017, 100), Take(4000034, 100), Take(4000177, 100),
      Take(4000073, 10), Take(4000144, 100), Take(4000242, 100), Take(4000182, 100), Take(4000267, 100),
      Take(4000451, 2000), Also("gainNX"), Pay(100000000), Take(4310150, 5), Take(4000313, 10), Take(4001126,
      30000), Also("setFlag"), Also("setStr"), Also("setDex"), Also("setInt"), Also("setLuk"), Also("setHp"),
      Also("setMp"), Also("setWatk"), Also("setMatk"), Also("setWdef"), Also("setMdef"), Also("setAcc"),
      Also("setAvoid"), Also("setHands"), Also("setSpeed"), Also("setJump"), Also("setOwner"), Dispose,
      Take(Some, Some), Give(Some, Some), Ok, Dispose>>, 0),
  T(13, Yes, {Has(4000016, 100), Has(4000017, 100), Has(4000019, 100), Has(4000034, 100), Has(4000073, 10),
      Has(4000144, 100), Has(4000177, 100), Has(4000182, 100), Has(4000242, 100), Has(4000267, 100),
      Has(4000313, 10), Has(4000451, 2000), Has(4001126, 30000), Has(4310150, 5), Rich(100000000)},
      <<Take(4000019, 100), Take(4000016, 100), Take(4000017, 100), Take(4000034, 100), Take(4000177, 100),
      Take(4000073, 10), Take(4000144, 100), Take(4000242, 100), Take(4000182, 100), Take(4000267, 100),
      Take(4000451, 2000), Also("gainNX"), Take(4310150, 5), Take(4000313, 10), Take(4001126, 30000),
      Pay(100000000), Ok, Dispose>>, 0),
  T(13, Yes, {}, <<Ok, Dispose>>, 0) }

\* special/蓝调升星.js
\* lines 8 to 146 of 蓝调升星.js
special_083a == {
  T(0, Start, {}, <<Say>>, 1),
  T(1, Yes, {}, <<Ok, Dispose>>, 0),
  T(1, Yes, {}, <<YesNo>>, 2),
  T(1, Yes, {}, <<YesNo>>, 3),
  T(2, Yes, {}, <<Ok, Dispose>>, 0),
  T(2, Yes, {}, <<Say>>, 4),
  T(2, Yes, {}, <<Say>>, 5),
  T(2, No, {}, <<Say>>, 8),
  T(3, Yes, {}, <<Ok, Dispose>>, 0),
  T(3, No, {}, <<Say>>, 1),
  T(8, Yes, {}, <<Ok, Dispose>>, 0),
  T(8, Yes, {}, <<YesNo>>, 2) }

\* lines 147 to 288 of 蓝调升星.js
special_083b == {
  T(2, Yes, {}, <<Ok, Dispose>>, 0),
  T(2, Yes, {}, <<Say>>, 5),
  T(2, Yes, {}, <<Say>>, 6),
  T(2, Yes, {}, <<Say>>, 7),
  T(4, Yes, {Rich(10000000)}, <<Pay(10000000), Also("setFlag"), Also("setStr"), Also("setDex"),
      Also("setInt"), Also("setLuk"), Also("setHp"), Also("setMp"), Also("setWatk"), Also("setMatk"),
      Also("setWdef"), Also("setMdef"), Also("setAcc"), Also("setAvoid"), Also("setHands"), Also("setSpeed"),
      Also("setJump"), Also("setOwner"), Dispose, Take(Some, Some), Give(Some, Some), Ok, Dispose>>, 0),
  T(4, Yes, {Rich(10000000)}, <<Pay(10000000), Ok, Dispose>>, 0),
  T(4, Yes, {}, <<Ok, Dispose>>, 0),
  T(5, Yes, {Has(1112793, 2), Rich(10000000)}, <<Take(1112793, 2), Pay(10000000), Also("setFlag"),
      Also("setStr"), Also("setDex"), Also("setInt"), Also("setLuk"), Also("setHp"), Also("setMp"),
      Also("setWatk"), Also("setMatk"), Also("setWdef"), Also("setMdef"), Also("setAcc"), Also("setAvoid"),
      Also("setHands"), Also("setSpeed"), Also("setJump"), Also("setOwner"), Dispose, Take(Some, Some),
      Give(Some, Some), Ok, Dispose>>, 0),
  T(5, Yes, {Has(1112793, 2), Rich(10000000)}, <<Take(1112793, 2), Pay(10000000), Ok, Dispose>>, 0),
  T(5, Yes, {Has(1112793, 2), Poor(10000000)}, <<Ok, Dispose>>, 0),
  T(5, Yes, {Lacks(1112793, 2)}, <<Ok, Dispose>>, 0),
  T(6, Yes, {Has(1112793, 3), Rich(30000000)}, <<Take(1112793, 3), Pay(30000000), Also("setFlag"),
      Also("setStr"), Also("setDex"), Also("setInt"), Also("setLuk"), Also("setHp"), Also("setMp"),
      Also("setWatk"), Also("setMatk"), Also("setWdef"), Also("setMdef"), Also("setAcc"), Also("setAvoid"),
      Also("setHands"), Also("setSpeed"), Also("setJump"), Also("setOwner"), Dispose, Take(Some, Some),
      Give(Some, Some), Ok, Dispose>>, 0),
  T(6, Yes, {Has(1112793, 3), Rich(30000000)}, <<Take(1112793, 3), Pay(30000000), Ok, Dispose>>, 0),
  T(6, Yes, {Has(1112793, 3), Poor(30000000)}, <<Ok, Dispose>>, 0),
  T(6, Yes, {Lacks(1112793, 3)}, <<Ok, Dispose>>, 0),
  T(7, Yes, {Has(1112793, 3), Rich(50000000)}, <<Take(1112793, 3), Pay(50000000), Also("setFlag"),
      Also("setStr"), Also("setDex"), Also("setInt"), Also("setLuk"), Also("setHp"), Also("setMp"),
      Also("setWatk"), Also("setMatk"), Also("setWdef"), Also("setMdef"), Also("setAcc"), Also("setAvoid"),
      Also("setHands"), Also("setSpeed"), Also("setJump"), Also("setOwner"), Dispose, Take(Some, Some),
      Give(Some, Some), Ok, Dispose>>, 0),
  T(7, Yes, {Has(1112793, 3), Rich(50000000)}, <<Take(1112793, 3), Pay(50000000), Ok, Dispose>>, 0),
  T(7, Yes, {Has(1112793, 3), Poor(50000000)}, <<Ok, Dispose>>, 0),
  T(7, Yes, {Lacks(1112793, 3)}, <<Ok, Dispose>>, 0) }

\* special/装备强化.js
special_084 == {
  T(0, Start, {}, <<Menu>>, 1),
  T(1, Yes, {Has(4170018, 66)}, <<Take(4170018, 66), Give(1012292, 1), Ok, Dispose>>, 0),
  T(1, Yes, {Lacks(4170018, 66)}, <<Ok, Dispose>>, 0),
  T(1, Yes, {Has(1012292, 1), Has(4170007, 66)}, <<Take(4170007, 66), Take(1012292, 1), Give(1012293, 1), Ok,
      Dispose>>, 0),
  T(1, Yes, {Has(4170007, 66), Lacks(1012292, 1)}, <<Ok, Dispose>>, 0),
  T(1, Yes, {Lacks(4170007, 66)}, <<Ok, Dispose>>, 0),
  T(1, Yes, {Has(1012293, 1), Has(4170006, 66)}, <<Take(4170006, 66), Take(1012293, 1), Give(1012294, 1), Ok,
      Dispose>>, 0),
  T(1, Yes, {Has(4170006, 66), Lacks(1012293, 1)}, <<Ok, Dispose>>, 0),
  T(1, Yes, {Lacks(4170006, 66)}, <<Ok, Dispose>>, 0),
  T(1, Yes, {Has(1012294, 1), Has(4170005, 66)}, <<Take(4170005, 66), Take(1012294, 1), Give(1012295, 1), Ok,
      Dispose>>, 0),
  T(1, Yes, {Has(4170005, 66), Lacks(1012294, 1)}, <<Ok, Dispose>>, 0),
  T(1, Yes, {Lacks(4170005, 66)}, <<Ok, Dispose>>, 0),
  T(1, Yes, {Has(1012295, 1), Has(4170004, 66)}, <<Take(4170004, 66), Take(1012295, 1), Give(1012291, 1), Ok,
      Dispose>>, 0),
  T(1, Yes, {Has(4170004, 66), Lacks(1012295, 1)}, <<Ok, Dispose>>, 0),
  T(1, Yes, {Lacks(4170004, 66)}, <<Ok, Dispose>>, 0) }

\* special/角色改名.js
special_085 == {
  T(0, Start, {}, <<Text>>, 1),
  T(1, Yes, {}, <<Ok, Dispose, Ok, Dispose, Fail>>, 0),
  T(1, Yes, {}, <<Ok, Dispose, Fail>>, 0),
  T(1, Yes, {}, <<Fail>>, 0) }

\* special/购买工资周卡.js
special_086 == {
  T(0, Start, {}, <<Menu>>, 1),
  T(1, Yes, {}, <<Ok, Dispose>>, 0),
  T(1, Yes, {Room(3, 1)}, <<Also("gainNX"), Give(3700067, 1), Ok, Dispose>>, 0) }

\* special/购买突破石.js
\* lines 1 to 128 of 购买突破石.js
special_087a == {
  T(0, Start, {}, <<Menu>>, 1),
  T(1, Yes, {}, <<Number>>, 2),
  T(2, Yes, {}, <<Ok, Dispose>>, 0),
  T(2, No, {}, <<Menu>>, 1) }

\* lines 129 to 319 of 购买突破石.js
special_087b == {
  T(2, Yes, {Room(2, 2)}, <<Give(2614000, Some), Also("gainNX"), Ok, Dispose>>, 0),
  T(2, Yes, {}, <<Ok, Dispose>>, 0) }

\* special/身外之身.js
special_088 == {
  T(0, Start, {Has(3994769, 1)}, <<Menu>>, 1),
  T(0, Start, {Lacks(3994769, 1)}, <<Menu>>, 2),
  T(1, Yes, {}, <<Ok, Dispose>>, 0),
  T(1, Yes, {Has(3994759, 1)}, <<Also("cloneLook"), Also("setjf2"), Ok, Dispose>>, 0),
  T(1, Yes, {}, <<Also("setjf2"), Also("disposeClones"), Ok, Dispose>>, 0),
  T(1, Yes, {Room(4, 1)}, <<Also("executeUpdate"), Give(3994759, 1), Ok, Dispose>>, 0),
  T(1, Yes, {Room(4, 1)}, <<Also("setPrizeLog"), Give(3994759, 1), Ok, Dispose>>, 0),
  T(1, Yes, {Has(3994769, 1)}, <<Also("cloneLook"), Also("setjf4"), Ok, Dispose>>, 0),
  T(1, Yes, {}, <<Also("setjf4"), Also("disposeClones"), Ok, Dispose>>, 0),
  T(2, Yes, {}, <<Ok, Dispose>>, 0),
  T(2, Yes, {Has(3994759, 1)}, <<Also("cloneLook"), Also("setjf2"), Ok, Dispose>>, 0),
  T(2, Yes, {}, <<Also("setjf2"), Also("disposeClones"), Ok, Dispose>>, 0),
  T(2, Yes, {Room(4, 1)}, <<Also("executeUpdate"), Give(3994759, 1), Ok, Dispose>>, 0),
  T(2, Yes, {Room(4, 1)}, <<Also("setPrizeLog"), Give(3994759, 1), Ok, Dispose>>, 0) }

\* special/领取工资.js
special_089 == {
  T(0, Start, {}, <<Menu>>, 1),
  T(1, Yes, {}, <<Dispose, OpenNpc>>, 0) }

\* special/领取每日工资.js
special_090 == {
  T(0, Start, {}, <<Menu>>, 1),
  T(1, Yes, {}, <<Ok, Dispose>>, 0),
  T(1, Yes, {Room(4, 6)}, <<Also("setBossLog"), Earn(1000000), Give(4001126, 10), Give(4170006, 5),
      Give(4170005, 5), Give(4001230, 5), Give(4000463, 2), Give(4000038, 2), Dispose>>, 0) }

\* special/骑士团技能.js
special_091 == {
  T(0, Start, {}, <<Menu>>, 1),
  T(1, Yes, {}, <<Menu>>, 2),
  T(1, Yes, {}, <<Ok, Dispose>>, 0),
  T(2, Yes, {Has(4001129, 5)}, <<Take(4001129, 5), Also("teachSkill"), Ok, Dispose>>, 0),
  T(2, Yes, {Lacks(4001129, 5)}, <<Also("setmoneyb"), Also("teachSkill"), Ok, Dispose>>, 0),
  T(2, Yes, {}, <<Ok, Dispose>>, 0) }

\* special/高级回收.js
\* lines 4 to 229 of 高级回收.js
special_092a == {
  T(3, No, {}, <<Ok, Dispose>>, 0),
  T(4, No, {}, <<Ok, Dispose>>, 0) }

\* lines 230 to 447 of 高级回收.js
special_092b == {
  T(0, Start, {}, <<Menu>>, 1),
  T(1, Yes, {}, <<Menu>>, 2),
  T(2, Yes, {Has(1092047, 1)}, <<YesNo>>, 3),
  T(2, Yes, {Lacks(1092047, 1)}, <<Ok, Dispose>>, 0),
  T(2, Yes, {}, <<YesNo>>, 4),
  T(3, Yes, {}, <<Also("setjf3"), Take(1092047, Some), Ok, Dispose>>, 0),
  T(4, Yes, {Has(1092047, 1)}, <<Take(1092047, Some), Also("setjf3"), Ok, Dispose>>, 0),
  T(4, Yes, {Lacks(1092047, 1)}, <<Also("setjf3"), Ok, Dispose>>, 0) }

\* special/鬼娃面具.js
\* lines 8 to 145 of 鬼娃面具.js
special_093a == {
  T(0, Start, {}, <<Say>>, 1),
  T(1, Yes, {}, <<Ok, Dispose>>, 0),
  T(1, Yes, {}, <<YesNo>>, 2),
  T(1, Yes, {}, <<YesNo>>, 3),
  T(2, Yes, {}, <<Ok, Dispose>>, 0),
  T(2, Yes, {}, <<Say>>, 4),
  T(2, No, {}, <<Say>>, 5),
  T(3, Yes, {}, <<Ok, Dispose>>, 0),
  T(3, No, {}, <<Say>>, 1),
  T(5, Yes, {}, <<Ok, Dispose>>, 0),
  T(5, Yes, {}, <<YesNo>>, 2) }

\* lines 146 to 262 of 鬼娃面具.js
special_093b == {
  T(2, Yes, {}, <<Ok, Dispose>>, 0),
  T(2, Yes, {}, <<Say>>, 4),
  T(4, Yes, {}, <<Also("gainNX"), Also("setFlag"), Also("setStr"), Also("setDex"), Also("setInt"),
      Also("setLuk"), Also("setHp"), Also("setMp"), Also("setWatk"), Also("setMatk"), Also("setWdef"),
      Also("setMdef"), Also("setAcc"), Also("setAvoid"), Also("setHands"), Also("setSpeed"), Also("setJump"),
      Also("setOwner"), Dispose, Take(Some, Some), Give(Some, Some), Ok, Dispose>>, 0),
  T(4, Yes, {}, <<Also("gainNX"), Ok, Dispose>>, 0),
  T(4, Yes, {}, <<Ok, Dispose>>, 0) }

\* special/1540517.js
special_094 == {
  T(0, Start, {}, <<Menu>>, 1),
  T(1, Yes, {}, <<Dispose, OpenNpc>>, 0) }

\* special/3003302.js
special_095 == {
  T(0, Start, {}, <<Menu>>, 1),
  T(1, Yes, {}, <<Dispose, OpenNpc>>, 0) }

\* special/3003323_11.js
\* lines 1 to 125 of 3003323_11.js
special_096a == {
  T(0, Start, {}, <<Menu>>, 1),
  T(1, Yes, {Has(1302030, 1), Has(4001126, 1000), Has(4005000, 5), Has(4005004, 5)}, <<Take(4001126, 1000),
      Take(4005004, 5), Take(1302030, 1), Take(4005000, 5), Give(1402039, 1), Ok, Dispose>>, 0),
  T(1, Yes, {Has(1302030, 1), Has(4001126, 1000), Has(4005004, 5), Lacks(4005000, 5)}, <<Ok, Dispose>>, 0),
  T(1, Yes, {Has(4001126, 1000), Has(4005004, 5), Lacks(1302030, 1)}, <<Ok, Dispose>>, 0),
  T(1, Yes, {Has(4001126, 1000), Lacks(4005004, 5)}, <<Ok, Dispose>>, 0),
  T(1, Yes, {Lacks(4001126, 1000)}, <<Ok, Dispose>>, 0),
  T(1, Yes, {Has(1442024, 1), Has(4001126, 1000), Has(4005000, 5), Has(4005004, 5)}, <<Take(4001126, 1000),
      Take(4005004, 5), Take(1442024, 1), Take(4005000, 5), Give(1442046, 1), Ok, Dispose>>, 0),
  T(1, Yes, {Has(1442024, 1), Has(4001126, 1000), Has(4005004, 5), Lacks(4005000, 5)}, <<Ok, Dispose>>, 0),
  T(1, Yes, {Has(4001126, 1000), Has(4005004, 5), Lacks(1442024, 1)}, <<Ok, Dispose>>, 0),
  T(1, Yes, {Has(1432012, 1), Has(4001126, 1000), Has(4005000, 5), Has(4005004, 5)}, <<Take(4001126, 1000),
      Take(4005004, 5), Take(1432012, 1), Take(4005000, 5), Give(1432040, 1), Ok, Dispose>>, 0),
  T(1, Yes, {Has(1432012, 1), Has(4001126, 1000), Has(4005004, 5), Lacks(4005000, 5)}, <<Ok, Dispose>>, 0),
  T(1, Yes, {Has(4001126, 1000), Has(4005004, 5), Lacks(1432012, 1)}, <<Ok, Dispose>>, 0),
  T(1, Yes, {Has(1452022, 1), Has(4001126, 1000), Has(4005002, 5), Has(4005004, 5)}, <<Take(4001126, 1000),
      Take(4005004, 5), Take(1452022, 1), Take(4005002, 5), Give(1452045, 1), Ok, Dispose>>, 0),
  T(1, Yes, {Has(1452022, 1), Has(4001126, 1000), Has(4005004, 5), Lacks(4005002, 5)}, <<Ok, Dispose>>, 0),
  T(1, Yes, {Has(4001126, 1000), Has(4005004, 5), Lacks(1452022, 1)}, <<Ok, Dispose>>, 0),
  T(1, Yes, {Has(1092030, 1), Has(4001126, 2000), Has(4005004, 35), Lacks(4005001, 35)}, <<Ok, Dispose>>, 0),
  T(1, Yes, {Has(4001126, 2000), Has(4005004, 35), Lacks(1092030, 1)}, <<Ok, Dispose>>, 0),
  T(1, Yes, {Has(4001126, 2000), Lacks(4005004, 35)}, <<Ok, Dispose>>, 0),
  T(1, Yes, {Lacks(4001126, 2000)}, <<Ok, Dispose>>, 0),
  T(1, Yes, {Has(1092030, 1), Has(4001126, 1000), Has(4005003, 10), Lacks(4005000, 10)}, <<Ok, Dispose>>, 0),
  T(1, Yes, {Has(4001126, 1000), Has(4005003, 10), Lacks(1092030, 1)}, <<Ok, Dispose>>, 0),
  T(1, Yes, {Has(4001126, 1000), Lacks(4005003, 10)}, <<Ok, Dispose>>, 0),
  T(1, Yes, {Has(1462019, 1), Has(4001126, 1000), Has(4005004, 5), Lacks(4005002, 5)}, <<Ok, Dispose>>, 0),
  T(1, Yes, {Has(4001126, 1000), Has(4005004, 5), Lacks(1462019, 1)}, <<Ok, Dispose>>, 0),
  T(1, Yes, {Has(1382012, 1), Has(4001126, 1000), Has(4005001, 5), Lacks(4005000, 5)}, <<Ok, Dispose>>, 0),
  T(1, Yes, {Has(4001126, 1000), Has(4005001, 5), Lacks(1382012, 1)}, <<Ok, Dispose>>, 0),
  T(1, Yes, {Has(4001126, 1000), Lacks(4005001, 5)}, <<Ok, Dispose>>, 0),
  T(1, Yes, {Has(1332025, 1), Has(4001126, 1000), Has(4005004, 5), Lacks(4005003, 5)}, <<Ok, Dispose>>, 0),
  T(1, Yes, {Has(4001126, 1000), Has(4005004, 5), Lacks(1332025, 1)}, <<Ok, Dispose>>, 0),
  T(1, Yes, {Has(1472032, 1), Has(4001126, 1000), Has(4005004, 5), Lacks(4005003, 5)}, <<Ok, Dispose>>, 0),
  T(1, Yes, {Has(4001126, 1000), Has(4005004, 5), Lacks(1472032, 1)}, <<Ok, Dispose>>, 0),
  T(1, Yes, {Has(1092030, 1), Has(4001126, 2000), Has(4005004, 35), Lacks(4005000, 35)}, <<Ok, Dispose>>, 0),
  T(1, Yes, {Has(1092047, 1), Has(4001126, 1500), Has(4005003, 30), Lacks(4005004, 30)}, <<Ok, Dispose>>, 0),
  T(1, Yes, {Has(4001126, 1500), Has(4005003, 30), Lacks(1092047, 1)}, <<Ok, Dispose>>, 0),
  T(1, Yes, {Has(4001126, 1500), Lacks(4005003, 30)}, <<Ok, Dispose>>, 0),
  T(1, Yes, {Lacks(4001126, 1500)}, <<Ok, Dispose>>, 0),
  T(1, Yes, {Has(1092050, 1), Has(4001126, 2500), Has(4005004, 60), Lacks(4005003, 60)}, <<Ok, Dispose>>, 0),
  T(1, Yes, {Has(4001126, 2500), Has(4005004, 60), Lacks(1092050, 1)}, <<Ok, Dispose>>, 0),
  T(1, Yes, {Has(4001126, 2500), Lacks(4005004, 60)}, <<Ok, Dispose>>, 0),
  T(1, Yes, {Lacks(4001126, 2500)}, <<Ok, Dispose>>, 0),
  T(1, Yes, {Has(1492021, 1), Has(4001126, 1500), Has(4005002, 7), Lacks(4005004, 7)}, <<Ok, Dispose>>, 0),
  T(1, Yes, {Has(4001126, 1500), Has(4005002, 7), Lacks(1492021, 1)}, <<Ok, Dispose>>, 0),
  T(1, Yes, {Has(4001126, 1500), Lacks(4005002, 7)}, <<Ok, Dispose>>, 0),
  T(1, Yes, {Has(1482021, 1), Has(4001126, 1500), Has(4005000, 7), Lacks(4005004, 7)}, <<Ok, Dispose>>, 0),
  T(1, Yes, {Has(4001126, 1500), Has(4005000, 7), Lacks(1482021, 1)}, <<Ok, Dispose>>, 0),
  T(1, Yes, {Has(4001126, 1500), Lacks(4005000, 7)}, <<Ok, Dispose>>, 0) }

\* lines 126 to 275 of 3003323_11.js
special_096b == {
  T(1, Yes, {Has(1302030, 1), Has(4001126, 1000), Has(4005004, 5), Lacks(4005000, 5)}, <<Ok, Dispose>>, 0),
  T(1, Yes, {Has(4001126, 1000), Has(4005004, 5), Lacks(1302030, 1)}, <<Ok, Dispose>>, 0),
  T(1, Yes, {Has(4001126, 1000), Lacks(4005004, 5)}, <<Ok, Dispose>>, 0),
  T(1, Yes, {Lacks(4001126, 1000)}, <<Ok, Dispose>>, 0),
  T(1, Yes, {Has(1442024, 1), Has(4001126, 1000), Has(4005004, 5), Lacks(4005000, 5)}, <<Ok, Dispose>>, 0),
  T(1, Yes, {Has(4001126, 1000), Has(4005004, 5), Lacks(1442024, 1)}, <<Ok, Dispose>>, 0),
  T(1, Yes, {Has(1432012, 1), Has(4001126, 1000), Has(4005004, 5), Lacks(4005000, 5)}, <<Ok, Dispose>>, 0),
  T(1, Yes, {Has(4001126, 1000), Has(4005004, 5), Lacks(1432012, 1)}, <<Ok, Dispose>>, 0),
  T(1, Yes, {Has(1452022, 1), Has(4001126, 1000), Has(4005004, 5), Lacks(4005002, 5)}, <<Ok, Dispose>>, 0),
  T(1, Yes, {Has(4001126, 1000), Has(4005004, 5), Lacks(1452022, 1)}, <<Ok, Dispose>>, 0),
  T(1, Yes, {Has(1092030, 1), Has(4001126, 2000), Has(4005001, 35), Has(4005004, 35)}, <<Take(4001126, 2000),
      Take(4005004, 35), Take(1092030, 1), Take(4005001, 35), Ok, Dispose>>, 0),
  T(1, Yes, {Has(1092030, 1), Has(4001126, 2000), Has(4005004, 35), Lacks(4005001, 35)}, <<Ok, Dispose>>, 0),
  T(1, Yes, {Has(4001126, 2000), Has(4005004, 35), Lacks(1092030, 1)}, <<Ok, Dispose>>, 0),
  T(1, Yes, {Has(4001126, 2000), Lacks(4005004, 35)}, <<Ok, Dispose>>, 0),
  T(1, Yes, {Lacks(4001126, 2000)}, <<Ok, Dispose>>, 0),
  T(1, Yes, {Has(1092030, 1), Has(4001126, 1000), Has(4005000, 10), Has(4005003, 10)}, <<Take(4001126, 1000),
      Take(4005003, 10), Take(1092030, 1), Take(4005000, 10), Ok, Dispose>>, 0),
  T(1, Yes, {Has(1092030, 1), Has(4001126, 1000), Has(4005003, 10), Lacks(4005000, 10)}, <<Ok, Dispose>>, 0),
  T(1, Yes, {Has(4001126, 1000), Has(4005003, 10), Lacks(1092030, 1)}, <<Ok, Dispose>>, 0),
  T(1, Yes, {Has(4001126, 1000), Lacks(4005003, 10)}, <<Ok, Dispose>>, 0),
  T(1, Yes, {Has(1462019, 1), Has(4001126, 1000), Has(4005002, 5), Has(4005004, 5)}, <<Take(4001126, 1000),
      Take(4005004, 5), Take(1462019, 1), Take(4005002, 5), Give(1462040, 1), Ok, Dispose>>, 0),
  T(1, Yes, {Has(1462019, 1), Has(4001126, 1000), Has(4005004, 5), Lacks(4005002, 5)}, <<Ok, Dispose>>, 0),
  T(1, Yes, {Has(4001126, 1000), Has(4005004, 5), Lacks(1462019, 1)}, <<Ok, Dispose>>, 0),
  T(1, Yes, {Has(1382012, 1), Has(4001126, 1000), Has(4005000, 5), Has(4005001, 5)}, <<Take(4001126, 1000),
      Take(4005001, 5), Take(1382012, 1), Take(4005000, 5), Give(1382039, 1), Ok, Dispose>>, 0),
  T(1, Yes, {Has(1382012, 1), Has(4001126, 1000), Has(4005001, 5), Lacks(4005000, 5)}, <<Ok, Dispose>>, 0),
  T(1, Yes, {Has(4001126, 1000), Has(4005001, 5), Lacks(1382012, 1)}, <<Ok, Dispose>>, 0),
  T(1, Yes, {Has(4001126, 1000), Lacks(4005001, 5)}, <<Ok, Dispose>>, 0),
  T(1, Yes, {Has(1332025, 1), Has(4001126, 1000), Has(4005003, 5), Has(4005004, 5)}, <<Take(4001126, 1000),
      Take(4005004, 5), Take(1332025, 1), Take(4005003, 5), Give(1332056, 1), Ok, Dispose>>, 0),
  T(1, Yes, {Has(1332025, 1), Has(4001126, 1000), Has(4005004, 5), Lacks(4005003, 5)}, <<Ok, Dispose>>, 0),
  T(1, Yes, {Has(4001126, 1000), Has(4005004, 5), Lacks(1332025, 1)}, <<Ok, Dispose>>, 0),
  T(1, Yes, {Has(1472032, 1), Has(4001126, 1000), Has(4005003, 5), Has(4005004, 5)}, <<Take(4001126, 1000),
      Take(4005004, 5), Take(1472032, 1), Take(4005003, 5), Give(1472055, 1), Ok, Dispose>>, 0),
  T(1, Yes, {Has(1472032, 1), Has(4001126, 1000), Has(4005004, 5), Lacks(4005003, 5)}, <<Ok, Dispose>>, 0),
  T(1, Yes, {Has(4001126, 1000), Has(4005004, 5), Lacks(1472032, 1)}, <<Ok, Dispose>>, 0),
  T(1, Yes, {Has(1092030, 1), Has(4001126, 2000), Has(4005000, 35), Has(4005004, 35)}, <<Take(4001126, 2000),
      Take(4005004, 35), Take(1092030, 1), Take(4005000, 35), Ok, Dispose>>, 0),
  T(1, Yes, {Has(1092030, 1), Has(4001126, 2000), Has(4005004, 35), Lacks(4005000, 35)}, <<Ok, Dispose>>, 0),
  T(1, Yes, {Has(1092047, 1), Has(4001126, 1500), Has(4005003, 30), Has(4005004, 30)}, <<Take(4001126, 1500),
      Take(4005003, 30), Take(1092047, 1), Take(4005004, 30), Ok, Dispose>>, 0),
  T(1, Yes, {Has(1092047, 1), Has(4001126, 1500), Has(4005003, 30), Lacks(4005004, 30)}, <<Ok, Dispose>>, 0),
  T(1, Yes, {Has(4001126, 1500), Has(4005003, 30), Lacks(1092047, 1)}, <<Ok, Dispose>>, 0),
  T(1, Yes, {Has(4001126, 1500), Lacks(4005003, 30)}, <<Ok, Dispose>>, 0),
  T(1, Yes, {Lacks(4001126, 1500)}, <<Ok, Dispose>>, 0),
  T(1, Yes, {Has(1092050, 1), Has(4001126, 2500), Has(4005003, 60), Has(4005004, 60)}, <<Take(4001126, 2500),
      Take(4005004, 60), Take(1092050, 1), Take(4005003, 60), Ok, Dispose>>, 0),
  T(1, Yes, {Has(1092050, 1), Has(4001126, 2500), Has(4005004, 60), Lacks(4005003, 60)}, <<Ok, Dispose>>, 0),
  T(1, Yes, {Has(4001126, 2500), Has(4005004, 60), Lacks(1092050, 1)}, <<Ok, Dispose>>, 0),
  T(1, Yes, {Has(4001126, 2500), Lacks(4005004, 60)}, <<Ok, Dispose>>, 0),
  T(1, Yes, {Lacks(4001126, 2500)}, <<Ok, Dispose>>, 0),
  T(1, Yes, {Has(1492021, 1), Has(4001126, 1500), Has(4005002, 7), Has(4005004, 7)}, <<Take(4001126, 1500),
      Take(4005002, 7), Take(1492021, 1), Take(4005004, 7), Give(1492073, 1), Ok, Dispose>>, 0),
  T(1, Yes, {Has(1492021, 1), Has(4001126, 1500), Has(4005002, 7), Lacks(4005004, 7)}, <<Ok, Dispose>>, 0),
  T(1, Yes, {Has(4001126, 1500), Has(4005002, 7), Lacks(1492021, 1)}, <<Ok, Dispose>>, 0),
  T(1, Yes, {Has(4001126, 1500), Lacks(4005002, 7)}, <<Ok, Dispose>>, 0),
  T(1, Yes, {Has(1482021, 1), Has(4001126, 1500), Has(4005000, 7), Has(4005004, 7)}, <<Take(4001126, 1500),
      Take(4005000, 7), Take(1482021, 1), Take(4005004, 7), Give(1482073, 1), Ok, Dispose>>, 0),
  T(1, Yes, {Has(1482021, 1), Has(4001126, 1500), Has(4005000, 7), Lacks(4005004, 7)}, <<Ok, Dispose>>, 0),
  T(1, Yes, {Has(4001126, 1500), Has(4005000, 7), Lacks(1482021, 1)}, <<Ok, Dispose>>, 0),
  T(1, Yes, {Has(4001126, 1500), Lacks(4005000, 7)}, <<Ok, Dispose>>, 0) }

\* special/3003323_12.js
\* lines 1 to 123 of 3003323_12.js
special_097a == {
  T(0, Start, {}, <<Menu>>, 1),
  T(1, Yes, {}, <<Menu>>, 2),
  T(1, Yes, {}, <<Menu>>, 3),
  T(1, Yes, {}, <<Menu>>, 4),
  T(2, Yes, {Has(4310029, 10)}, <<Take(4310029, 10), Give(1142208, 1), Ok, Dispose>>, 0),
  T(2, Yes, {Lacks(4310029, 10)}, <<Ok, Dispose>>, 0),
  T(2, Yes, {Has(1142208, 1), Has(4310029, 10)}, <<Take(4310029, 10), Take(1142208, 1), Give(1142790, 1), Ok,
      Dispose>>, 0),
  T(2, Yes, {Has(4310029, 10), Lacks(1142208, 1)}, <<Ok, Dispose>>, 0),
  T(2, Yes, {Has(4310029, 15), Lacks(1142790, 1)}, <<Ok, Dispose>>, 0),
  T(2, Yes, {Lacks(4310029, 15)}, <<Ok, Dispose>>, 0),
  T(2, Yes, {Has(4310029, 30), Lacks(1142367, 1)}, <<Ok, Dispose>>, 0),
  T(2, Yes, {Lacks(4310029, 30)}, <<Ok, Dispose>>, 0) }

\* lines 124 to 273 of 3003323_12.js
special_097b == {
  T(2, Yes, {Lacks(4310029, 10)}, <<Ok, Dispose>>, 0),
  T(2, Yes, {Has(4310029, 10), Lacks(1142208, 1)}, <<Ok, Dispose>>, 0),
  T(2, Yes, {Has(1142790, 1), Has(4310029, 15)}, <<Take(4310029, 15), Take(1142790, 1), Give(1142367, 1), Ok,
      Dispose>>, 0),
  T(2, Yes, {Has(4310029, 15), Lacks(1142790, 1)}, <<Ok, Dispose>>, 0),
  T(2, Yes, {Lacks(4310029, 15)}, <<Ok, Dispose>>, 0),
  T(2, Yes, {Has(1142367, 1), Has(4310029, 30)}, <<Take(4310029, 30), Take(1142367, 1), Give(1142298, 1), Ok,
      Dispose>>, 0),
  T(2, Yes, {Has(4310029, 30), Lacks(1142367, 1)}, <<Ok, Dispose>>, 0),
  T(2, Yes, {Lacks(4310029, 30)}, <<Ok, Dispose>>, 0),
  T(3, Yes, {Has(4310066, 50)}, <<Take(4310066, 50), Give(1142006, 1), Ok, Dispose>>, 0),
  T(3, Yes, {Lacks(4310066, 50)}, <<Ok, Dispose>>, 0),
  T(3, Yes, {Has(1142006, 1), Has(4310066, 50)}, <<Take(4310066, 50), Take(1142006, 1), Give(1142441, 1), Ok,
      Dispose>>, 0),
  T(3, Yes, {Lacks(1142006, 1)}, <<Ok, Dispose>>, 0),
  T(3, Yes, {Has(1142441, 1), Has(4310066, 80)}, <<Take(4310066, 80), Take(1142441, 1), Give(1142404, 1), Ok,
      Dispose>>, 0),
  T(3, Yes, {Has(1142441, 1), Lacks(4310066, 80)}, <<Ok, Dispose>>, 0),
  T(3, Yes, {Lacks(1142441, 1)}, <<Ok, Dispose>>, 0),
  T(3, Yes, {Has(1142404, 1), Has(4310066, 140)}, <<Take(4310066, 140), Take(1142404, 1), Give(1142408, 1),
      Ok, Dispose>>, 0),
  T(3, Yes, {Has(1142404, 1), Lacks(4310066, 140)}, <<Ok, Dispose>>, 0),
  T(3, Yes, {Lacks(1142404, 1)}, <<Ok, Dispose>>, 0),
  T(4, Yes, {Has(4032398, 15)}, <<Take(4032398, 15), Give(1142508, 1), Ok, Dispose>>, 0),
  T(4, Yes, {Lacks(4032398, 15)}, <<Ok, Dispose>>, 0),
  T(4, Yes, {Has(1142508, 1), Has(4032398, 20)}, <<Take(4032398, 20), Take(1142508, 1), Give(1142510, 1), Ok,
      Dispose>>, 0),
  T(4, Yes, {Has(1142508, 1), Lacks(4032398, 20)}, <<Ok, Dispose>>, 0),
  T(4, Yes, {Lacks(1142508, 1)}, <<Ok, Dispose>>, 0),
  T(4, Yes, {Has(1142510, 1), Has(4032398, 30)}, <<Take(4032398, 30), Take(1142510, 1), Give(1142511, 1), Ok,
      Dispose>>, 0),
  T(4, Yes, {Has(1142510, 1), Lacks(4032398, 30)}, <<Ok, Dispose>>, 0),
  T(4, Yes, {Lacks(1142510, 1)}, <<Ok, Dispose>>, 0),
  T(4, Yes, {Has(1142511, 1), Has(4032398, 50)}, <<Take(4032398, 50), Take(1142511, 1), Give(1142509, 1), Ok,
      Dispose>>, 0),
  T(4, Yes, {Has(1142511, 1), Lacks(4032398, 50)}, <<Ok, Dispose>>, 0),
  T(4, Yes, {Lacks(1142511, 1)}, <<Ok, Dispose>>, 0),
  T(4, Yes, {Has(1142509, 1), Has(4032398, 80)}, <<Take(4032398, 80), Take(1142509, 1), Give(1142008, 1), Ok,
      Dispose>>, 0),
  T(4, Yes, {Has(1142509, 1), Lacks(4032398, 80)}, <<Ok, Dispose>>, 0),
  T(4, Yes, {Lacks(1142509, 1)}, <<Ok, Dispose>>, 0) }

\* special/3003323_14.js
\* lines 9 to 148 of 3003323_14.js
special_098a == {
  T(0, Start, {}, <<Menu>>, 1),
  T(1, Yes, {}, <<Number>>, 2),
  T(1, Yes, {}, <<Ok, Dispose, Number>>, 0),
  T(1, Yes, {}, <<Number>>, 3),
  T(1, Yes, {}, <<Number>>, 4),
  T(1, Yes, {}, <<Number>>, 5),
  T(1, Yes, {}, <<Say>>, 6),
  T(1, Yes, {}, <<Ok, Dispose, Say>>, 0),
  T(2, No, {}, <<Menu>>, 1),
  T(3, No, {}, <<Menu>>, 1),
  T(4, No, {}, <<Menu>>, 1),
  T(5, No, {}, <<Menu>>, 1),
  T(6, Yes, {}, <<Menu>>, 1),
  T(7, No, {}, <<Menu>>, 1),
  T(8, No, {}, <<Menu>>, 1),
  T(9, No, {}, <<Menu>>, 1),
  T(10, No, {}, <<Menu>>, 1),
  T(11, No, {}, <<Menu>>, 1) }

\* lines 149 to 288 of 3003323_14.js
special_098b == {
  T(1, Yes, {}, <<Ok, Dispose, Number>>, 0),
  T(1, Yes, {}, <<Say>>, 6),
  T(1, Yes, {}, <<Ok, Dispose, Say>>, 0),
  T(1, Yes, {Has(4000463, 1)}, <<Number>>, 7),
  T(1, Yes, {Has(4000463, 1)}, <<Number>>, 8),
  T(1, Yes, {}, <<Number>>, 9),
  T(1, Yes, {Has(4001126, 1)}, <<Number>>, 10),
  T(1, Yes, {Has(4000313, 1)}, <<Number>>, 11),
  T(2, Yes, {}, <<Take(4000463, Some), Give(3010788, Some), Say, Dispose>>, 0),
  T(2, Yes, {}, <<Say, Dispose>>, 0),
  T(3, Yes, {}, <<Take(4000463, Some), Give(3015304, Some), Say, Dispose>>, 0),
  T(3, Yes, {}, <<Say, Dispose>>, 0),
  T(4, Yes, {}, <<Take(4310049, Some), Give(4310108, Some), Say, Dispose>>, 0),
  T(4, Yes, {}, <<Say, Dispose>>, 0),
  T(5, Yes, {}, <<Also("setmoneyb"), Also("gainNX"), Also("gaincz"), Say, Dispose>>, 0),
  T(5, Yes, {}, <<Also("setmoneyb"), Say, Dispose>>, 0),
  T(5, Yes, {}, <<Say, Dispose, Also("gainNX"), Also("gaincz"), Say, Dispose>>, 0),
  T(5, Yes, {}, <<Say, Dispose, Also("setmoneyb"), Say, Dispose>>, 0) }

\* lines 289 to 438 of 3003323_14.js
special_098c == {
  T(5, Yes, {}, <<Also("setmoneyb"), Also("gainNX"), Also("gaincz"), Say, Dispose>>, 0),
  T(5, Yes, {}, <<Say, Dispose, Also("gainNX"), Also("gaincz"), Say, Dispose>>, 0),
  T(7, Yes, {}, <<Take(4000463, Some), Say, Earn(Some), Dispose>>, 0),
  T(7, Yes, {}, <<Say, Dispose>>, 0),
  T(8, Yes, {}, <<Take(4000463, Some), Say, Also("gainNX"), Dispose>>, 0),
  T(8, Yes, {}, <<Say, Dispose>>, 0),
  T(9, Yes, {}, <<Also("gainNX"), Give(4000463, Some), Ok, Dispose>>, 0),
  T(9, Yes, {}, <<Say, Dispose>>, 0),
  T(10, Yes, {}, <<Take(4001126, Some), Say, Also("gainDY"), Dispose>>, 0),
  T(10, Yes, {}, <<Say, Dispose>>, 0),
  T(11, Yes, {}, <<Take(4000313, Some), Say, Also("gainNX"), Dispose>>, 0),
  T(11, Yes, {}, <<Say, Dispose>>, 0) }

\* special/9310498.js
special_099 == {
  T(0, Start, {}, <<Fail>>, 0) }

\* special/9310561.js
special_100 == {
  T(0, Start, {}, <<Menu>>, 1),
  T(0, Start, {}, <<Ok, Dispose>>, 0),
  T(1, Yes, {}, <<Fail>>, 0),
  T(1, Yes, {}, <<Ok, Dispose>>, 0),
  T(1, Yes, {}, <<Dispose, OpenNpc>>, 0) }

\* special/9900001_88.js
special_101 == {
  T(0, Start, {Has(3700148, 1)}, <<Ok>>, 1),
  T(0, Start, {Has(3700149, 1), Lacks(3700148, 1)}, <<Ok>>, 1),
  T(0, Start, {Has(3700150, 1), Lacks(3700148, 1), Lacks(3700149, 1)}, <<Ok>>, 1),
  T(0, Start, {Lacks(3700148, 1), Lacks(3700149, 1), Lacks(3700150, 1)}, <<Menu>>, 2),
  T(1, Yes, {}, <<>>, 0),
  T(2, Yes, {}, <<Fail>>, 0),
  T(2, Yes, {}, <<Ok, Dispose>>, 0) }

\* special/9900004.js
special_102 == {
  T(0, Start, {}, <<Menu>>, 1),
  T(1, Yes, {}, <<Dispose, OpenNpc>>, 0) }

SpecialScriptsTable == [
  special_001 |-> special_001, special_002 |-> special_002,
  special_003 |-> special_003a \cup special_003b \cup special_003c \cup special_003d,
  special_004 |-> special_004, special_005 |-> special_005a \cup special_005b, special_006 |-> special_006,
  special_007 |-> special_007a \cup special_007b, special_008 |-> special_008, special_009 |-> special_009,
  special_010 |-> special_010, special_011 |-> special_011, special_012 |-> special_012a \cup special_012b,
  special_013 |-> special_013a \cup special_013b, special_014 |-> special_014a \cup special_014b,
  special_015 |-> special_015, special_016 |-> special_016a \cup special_016b, special_017 |-> special_017,
  special_018 |-> special_018, special_019 |-> special_019, special_020 |-> special_020a \cup special_020b,
  special_021 |-> special_021a \cup special_021b, special_022 |-> special_022, special_023 |-> special_023,
  special_024 |-> special_024, special_025 |-> special_025, special_026 |-> special_026,
  special_027 |-> special_027a \cup special_027b, special_028 |-> special_028,
  special_029 |-> special_029a \cup special_029b, special_030 |-> special_030a \cup special_030b,
  special_031 |-> special_031, special_032 |-> special_032, special_033 |-> special_033,
  special_034 |-> special_034, special_035 |-> special_035, special_036 |-> special_036,
  special_037 |-> special_037, special_038 |-> special_038a \cup special_038b, special_039 |-> special_039,
  special_040 |-> special_040, special_041 |-> special_041, special_042 |-> special_042,
  special_043 |-> special_043, special_044 |-> special_044,
  special_045 |-> special_045a \cup special_045b \cup special_045c \cup special_045d \cup special_045e,
  special_046 |-> special_046, special_047 |-> special_047, special_048 |-> special_048a \cup special_048b,
  special_049 |-> special_049a \cup special_049b \cup special_049c,
  special_050 |-> special_050a \cup special_050b, special_051 |-> special_051a \cup special_051b,
  special_052 |-> special_052a \cup special_052b, special_053 |-> special_053,
  special_054 |-> special_054a \cup special_054b, special_055 |-> special_055a \cup special_055b,
  special_056 |-> special_056a \cup special_056b, special_057 |-> special_057, special_058 |-> special_058,
  special_059 |-> special_059, special_060 |-> special_060, special_061 |-> special_061,
  special_062 |-> special_062a \cup special_062b, special_063 |-> special_063a \cup special_063b,
  special_064 |-> special_064, special_065 |-> special_065, special_066 |-> special_066,
  special_067 |-> special_067, special_068 |-> special_068, special_069 |-> special_069,
  special_070 |-> special_070, special_071 |-> special_071, special_072 |-> special_072,
  special_073 |-> special_073, special_074 |-> special_074a \cup special_074b \cup special_074c,
  special_075 |-> special_075, special_076 |-> special_076, special_077 |-> special_077a \cup special_077b,
  special_078 |-> special_078a \cup special_078b, special_079 |-> special_079,
  special_080 |-> special_080a \cup special_080b, special_081 |-> special_081,
  special_082 |-> special_082a \cup special_082b \cup special_082c \cup special_082d \cup special_082e,
  special_083 |-> special_083a \cup special_083b, special_084 |-> special_084, special_085 |-> special_085,
  special_086 |-> special_086, special_087 |-> special_087a \cup special_087b, special_088 |-> special_088,
  special_089 |-> special_089, special_090 |-> special_090, special_091 |-> special_091,
  special_092 |-> special_092a \cup special_092b, special_093 |-> special_093a \cup special_093b,
  special_094 |-> special_094, special_095 |-> special_095, special_096 |-> special_096a \cup special_096b,
  special_097 |-> special_097a \cup special_097b,
  special_098 |-> special_098a \cup special_098b \cup special_098c, special_099 |-> special_099,
  special_100 |-> special_100, special_101 |-> special_101, special_102 |-> special_102 ]
================================================================================
