----------------------------- MODULE NpcScripts93 ------------------------------
(* Tables of the scripts of NPCs 93xxxxx and 99xxxxx. *)
EXTENDS ScriptTables

npc_9300011 == {
  T(0, Start, {}, <<Menu>>, 1),
  T(1, Yes, {}, <<Also("warp"), Dispose>>, 0) }

npc_9310019 == {
  T(0, Start, {}, <<Menu>>, 1),
  T(1, Yes, {}, <<Dispose, OpenNpc>>, 0),
  T(1, Yes, {}, <<Also("warp"), Dispose>>, 0),
  T(1, Yes, {}, <<Dispose, Also("warp")>>, 0),
  T(1, Yes, {}, <<Dispose, Also("warpParty")>>, 0) }

npc_9310022 == {
  T(0, Start, {}, <<Ok, Dispose>>, 0),
  T(0, Start, {}, <<Menu>>, 1),
  T(1, Yes, {}, <<Ok, Dispose>>, 0),
  T(1, Yes, {}, <<Dispose, OpenNpc>>, 0) }

npc_9310039 == {
  T(0, Start, {}, <<Menu>>, 1),
  T(1, Yes, {}, <<Ok, Dispose>>, 0),
  T(1, Yes, {}, <<Also("startInstance"), Also("setPartyBosslog"), Dispose>>, 0) }

npc_9310058_1 == {
  T(0, Start, {}, <<Menu>>, 1),
  T(1, Yes, {Has(2022615, 1)}, <<Ok>>, 2),
  T(1, Yes, {Lacks(2022615, 1)}, <<Also("setmoneyb"), Give(2022615, 1), Fail>>, 0),
  T(1, Yes, {Lacks(2022615, 1)}, <<Ok, Dispose>>, 0),
  T(2, Yes, {}, <<>>, 0) }

npc_9310058_3 == {
  T(0, Start, {}, <<Menu>>, 1),
  T(1, Yes, {}, <<YesNo>>, 2),
  T(1, Yes, {}, <<Say>>, 3),
  T(2, Yes, {}, <<Ok, Dispose>>, 0),
  T(2, Yes, {}, <<Also("setBossLogAcc"), Fail>>, 0),
  T(2, Yes, {}, <<Fail>>, 0),
  T(2, Yes, {}, <<Also("setBossLogAcc"), Give(4000463, 10), Fail>>, 0),
  T(2, Yes, {}, <<Also("setBossLogAcc"), Give(4000463, 20), Fail>>, 0),
  T(2, Yes, {}, <<Also("setBossLogAcc"), Give(4000463, 30), Fail>>, 0),
  T(2, Yes, {}, <<Also("setBossLogAcc"), Give(4000463, 80), Fail>>, 0),
  T(2, No, {}, <<Menu>>, 1),
  T(3, Yes, {}, <<Menu>>, 1) }

npc_9310058_4 == {
  T(0, Start, {}, <<Menu>>, 1),
  T(0, Start, {}, <<Ok, Dispose>>, 0),
  T(1, Yes, {}, <<YesNo>>, 2),
  T(2, Yes, {}, <<Fail>>, 0),
  T(2, No, {}, <<Menu>>, 1) }

npc_9310058_6 == {
  T(0, Start, {}, <<Menu>>, 1),
  T(1, Yes, {}, <<Say>>, 2),
  T(1, Yes, {}, <<Text>>, 3),
  T(2, Yes, {}, <<Menu>>, 1),
  T(3, Yes, {}, <<Fail>>, 0) }

npc_9310058_10 == {
  T(0, Start, {}, <<Fail>>, 0) }

npc_9310058_11 == {
  T(0, Start, {}, <<Menu>>, 1),
  T(0, Start, {}, <<Ok, Dispose>>, 0),
  T(1, Yes, {}, <<YesNo>>, 2),
  T(2, Yes, {}, <<Fail>>, 0),
  T(2, No, {}, <<Menu>>, 1) }

npc_9310059 == {
  T(0, Start, {}, <<Menu>>, 1),
  T(1, Yes, {}, <<Also("warp"), Dispose>>, 0),
  T(1, Yes, {}, <<Dispose, OpenNpc>>, 0) }

\* lines 1 to 113 of 9310059_2.js
npc_9310059_2a == {
  T(0, Start, {}, <<Menu>>, 1),
  T(0, Start, {}, <<Say>>, 1),
  T(1, Yes, {}, <<Say>>, 2),
  T(1, Yes, {}, <<Say>>, 3),
  T(1, Yes, {}, <<Say>>, 4),
  T(1, Yes, {}, <<Say>>, 5),
  T(1, Yes, {}, <<Say>>, 6),
  T(1, Yes, {}, <<Say>>, 7),
  T(1, Yes, {}, <<Say>>, 8),
  T(1, Yes, {}, <<Say>>, 9),
  T(1, Yes, {}, <<Say>>, 10),
  T(1, Yes, {}, <<Say>>, 11),
  T(1, Yes, {}, <<Dispose, Say>>, 0),
  T(1, Yes, {}, <<Dispose, Ok, Dispose>>, 0),
  T(12, No, {}, <<Dispose>>, 0) }

\* lines 114 to 256 of 9310059_2.js
npc_9310059_2b == {
  T(1, Yes, {}, <<Dispose, Ok, Dispose>>, 0),
  T(2, Yes, {}, <<Ok, Dispose>>, 0),
  T(2, Yes, {Has(3992025, 19)}, <<Take(3992025, 19), YesNo>>, 12),
  T(3, Yes, {}, <<Ok, Dispose>>, 0),
  T(3, Yes, {Has(3992025, 49)}, <<Take(3992025, 49), YesNo>>, 12),
  T(3, Yes, {Has(3992025, 49)}, <<Take(3992025, 49), Ok, Dispose>>, 0),
  T(4, Yes, {}, <<Ok, Dispose>>, 0),
  T(4, Yes, {Has(3992025, 99)}, <<Take(3992025, 99), YesNo>>, 12),
  T(4, Yes, {Has(3992025, 99)}, <<Take(3992025, 99), Ok, Dispose>>, 0),
  T(5, Yes, {}, <<Ok, Dispose>>, 0),
  T(5, Yes, {Has(3992025, 169)}, <<Take(3992025, 169), YesNo>>, 12),
  T(5, Yes, {Has(3992025, 169)}, <<Take(3992025, 169), Ok, Dispose>>, 0),
  T(6, Yes, {}, <<Ok, Dispose>>, 0),
  T(6, Yes, {Has(3992025, 259)}, <<Take(3992025, 259), YesNo>>, 12),
  T(6, Yes, {Has(3992025, 259)}, <<Take(3992025, 259), Ok, Dispose>>, 0),
  T(7, Yes, {}, <<Ok, Dispose>>, 0),
  T(7, Yes, {Has(3992025, 369)}, <<Take(3992025, 369), YesNo>>, 12),
  T(7, Yes, {Has(3992025, 369)}, <<Take(3992025, 369), Ok, Dispose>>, 0),
  T(8, Yes, {}, <<Ok, Dispose>>, 0),
  T(8, Yes, {Has(3992025, 499)}, <<Take(3992025, 499), YesNo>>, 12),
  T(8, Yes, {Has(3992025, 499)}, <<Take(3992025, 499), Ok, Dispose>>, 0),
  T(9, Yes, {}, <<Ok, Dispose>>, 0),
  T(9, Yes, {Has(3992025, 649)}, <<Take(3992025, 649), YesNo>>, 12),
  T(9, Yes, {Has(3992025, 649)}, <<Take(3992025, 649), Also("setStr"), Also("setDex"), Also("setInt"),
      Also("setLuk"), Also("setHp"), Also("setMp"), Also("setWatk"), Also("setMatk"), Also("setOwner"),
      Take(Some, Some), Give(Some, Some), Ok, Dispose>>, 0),
  T(10, Yes, {}, <<Ok, Dispose>>, 0),
  T(10, Yes, {Has(3992025, 819)}, <<Take(3992025, 819), YesNo>>, 12),
  T(10, Yes, {Has(3992025, 819)}, <<Take(3992025, 819), Also("setStr"), Also("setDex"), Also("setInt"),
      Also("setLuk"), Also("setHp"), Also("setMp"), Also("setWatk"), Also("setMatk"), Also("setOwner"),
      Take(Some, Some), Give(Some, Some), Ok, Dispose>>, 0),
  T(11, Yes, {}, <<Ok, Dispose>>, 0),
  T(11, Yes, {Has(3992025, 1009)}, <<Take(3992025, 1009), YesNo>>, 12),
  T(11, Yes, {Has(3992025, 1009)}, <<Take(3992025, 1009), Also("setStr"), Also("setDex"), Also("setInt"),
      Also("setLuk"), Also("setHp"), Also("setMp"), Also("setWatk"), Also("setMatk"), Also("setOwner"),
      Take(Some, Some), Give(Some, Some), Ok, Dispose>>, 0),
  T(12, Yes, {}, <<Also("setStr"), Also("setDex"), Also("setInt"), Also("setLuk"), Also("setHp"),
      Also("setMp"), Also("setWatk"), Also("setMatk"), Also("setOwner"), Take(Some, Some), Give(Some, Some),
      Ok, Fail>>, 13),
  T(13, Yes, {}, <<>>, 0) }

\* lines 1 to 125 of 9310059_3.js
npc_9310059_3a == {
  T(0, Start, {}, <<Menu>>, 1),
  T(0, Start, {}, <<Say>>, 1),
  T(1, Yes, {}, <<Number>>, 2),
  T(2, Yes, {}, <<Say>>, 3),
  T(2, Yes, {}, <<Say>>, 4),
  T(2, Yes, {}, <<Say>>, 5),
  T(2, Yes, {}, <<Say>>, 6),
  T(2, Yes, {}, <<Say>>, 7),
  T(2, Yes, {}, <<Say>>, 8),
  T(2, Yes, {}, <<Say>>, 9),
  T(2, Yes, {}, <<Say>>, 10),
  T(2, Yes, {}, <<Say>>, 11),
  T(2, Yes, {}, <<Say>>, 12),
  T(2, Yes, {}, <<Dispose, Say>>, 0),
  T(2, Yes, {}, <<Dispose, Ok, Dispose>>, 0),
  T(2, No, {}, <<Ok, Dispose>>, 0),
  T(3, Yes, {}, <<Ok, Dispose>>, 0),
  T(4, Yes, {}, <<Ok, Dispose>>, 0),
  T(5, Yes, {}, <<Ok, Dispose>>, 0),
  T(6, Yes, {}, <<Ok, Dispose>>, 0),
  T(7, Yes, {}, <<Ok, Dispose>>, 0),
  T(8, Yes, {}, <<Ok, Dispose>>, 0),
  T(9, Yes, {}, <<Ok, Dispose>>, 0),
  T(10, Yes, {}, <<Ok, Dispose>>, 0),
  T(11, Yes, {}, <<Ok, Dispose>>, 0),
  T(12, Yes, {}, <<Ok, Dispose>>, 0),
  T(13, No, {}, <<Ok, Dispose>>, 0) }

\* lines 126 to 271 of 9310059_3.js
npc_9310059_3b == {
  T(3, Yes, {}, <<Ok, Dispose>>, 0),
  T(3, Yes, {Has(3992025, 19)}, <<Take(3992025, 19), Take(2530000, Some), YesNo>>, 13),
  T(3, Yes, {Has(3992025, 19)}, <<Take(3992025, 19), Also("setStr"), Also("setDex"), Also("setInt"),
      Also("setLuk"), Also("setHp"), Also("setMp"), Also("setWatk"), Also("setMatk"), Also("setOwner"),
      Take(Some, Some), Give(Some, Some), Ok, Dispose>>, 0),
  T(3, Yes, {Has(3992025, 19)}, <<Take(3992025, 19), Give(3992025, Some), Ok, Dispose>>, 0),
  T(4, Yes, {}, <<Ok, Dispose>>, 0),
  T(4, Yes, {Has(3992025, 49)}, <<Take(3992025, 49), Take(2530000, Some), YesNo>>, 13),
  T(4, Yes, {Has(3992025, 49)}, <<Take(3992025, 49), Also("setStr"), Also("setDex"), Also("setInt"),
      Also("setLuk"), Also("setHp"), Also("setMp"), Also("setWatk"), Also("setMatk"), Also("setOwner"),
      Take(Some, Some), Give(Some, Some), Ok, Dispose>>, 0),
  T(4, Yes, {Has(3992025, 49)}, <<Take(3992025, 49), Give(3992025, Some), Ok, Dispose>>, 0),
  T(5, Yes, {}, <<Ok, Dispose>>, 0),
  T(5, Yes, {Has(3992025, 99)}, <<Take(3992025, 99), Take(2530000, Some), YesNo>>, 13),
  T(5, Yes, {Has(3992025, 99)}, <<Take(3992025, 99), Also("setStr"), Also("setDex"), Also("setInt"),
      Also("setLuk"), Also("setHp"), Also("setMp"), Also("setWatk"), Also("setMatk"), Also("setOwner"),
      Take(Some, Some), Give(Some, Some), Ok, Dispose>>, 0),
  T(5, Yes, {Has(3992025, 99)}, <<Take(3992025, 99), Give(3992025, Some), Ok, Dispose>>, 0),
  T(6, Yes, {}, <<Ok, Dispose>>, 0),
  T(6, Yes, {Has(3992025, 169)}, <<Take(3992025, 169), Take(2530000, Some), YesNo>>, 13),
  T(6, Yes, {Has(3992025, 169)}, <<Take(3992025, 169), Also("setStr"), Also("setDex"), Also("setInt"),
      Also("setLuk"), Also("setHp"), Also("setMp"), Also("setWatk"), Also("setMatk"), Also("setOwner"),
      Take(Some, Some), Give(Some, Some), Ok, Dispose>>, 0),
  T(6, Yes, {Has(3992025, 169)}, <<Take(3992025, 169), Give(3992025, Some), Ok, Dispose>>, 0),
  T(7, Yes, {}, <<Ok, Dispose>>, 0),
  T(7, Yes, {Has(3992025, 259)}, <<Take(3992025, 259), Take(2530000, Some), YesNo>>, 13),
  T(7, Yes, {Has(3992025, 259)}, <<Take(3992025, 259), Also("setStr"), Also("setDex"), Also("setInt"),
      Also("setLuk"), Also("setHp"), Also("setMp"), Also("setWatk"), Also("setMatk"), Also("setOwner"),
      Take(Some, Some), Give(Some, Some), Ok, Dispose>>, 0),
  T(7, Yes, {Has(3992025, 259)}, <<Take(3992025, 259), Give(3992025, Some), Ok, Dispose>>, 0),
  T(8, Yes, {}, <<Ok, Dispose>>, 0),
  T(8, Yes, {Has(3992025, 369)}, <<Take(3992025, 369), Take(2530000, Some), YesNo>>, 13),
  T(8, Yes, {Has(3992025, 369)}, <<Take(3992025, 369), Also("setStr"), Also("setDex"), Also("setInt"),
      Also("setLuk"), Also("setHp"), Also("setMp"), Also("setWatk"), Also("setMatk"), Also("setOwner"),
      Take(Some, Some), Give(Some, Some), Ok, Dispose>>, 0),
  T(8, Yes, {Has(3992025, 369)}, <<Take(3992025, 369), Give(3992025, Some), Ok, Dispose>>, 0),
  T(9, Yes, {}, <<Ok, Dispose>>, 0),
  T(9, Yes, {Has(3992025, 499)}, <<Take(3992025, 499), Take(2530000, Some), YesNo>>, 13),
  T(9, Yes, {Has(3992025, 499)}, <<Take(3992025, 499), Also("setStr"), Also("setDex"), Also("setInt"),
      Also("setLuk"), Also("setHp"), Also("setMp"), Also("setWatk"), Also("setMatk"), Also("setOwner"),
      Take(Some, Some), Give(Some, Some), Ok, Dispose>>, 0),
  T(9, Yes, {Has(3992025, 499)}, <<Take(3992025, 499), Give(3992025, Some), Ok, Dispose>>, 0),
  T(10, Yes, {}, <<Ok, Dispose>>, 0),
  T(10, Yes, {Has(3992025, 649)}, <<Take(3992025, 649), Take(2530000, Some), YesNo>>, 13),
  T(10, Yes, {Has(3992025, 649)}, <<Take(3992025, 649), Also("setStr"), Also("setDex"), Also("setInt"),
      Also("setLuk"), Also("setHp"), Also("setMp"), Also("setWatk"), Also("setMatk"), Also("setOwner"),
      Take(Some, Some), Give(Some, Some), Ok, Dispose>>, 0),
  T(10, Yes, {Has(3992025, 649)}, <<Take(3992025, 649), Give(3992025, Some), Ok, Dispose>>, 0),
  T(11, Yes, {}, <<Ok, Dispose>>, 0),
  T(11, Yes, {Has(3992025, 819)}, <<Take(3992025, 819), Take(2530000, Some), YesNo>>, 13),
  T(11, Yes, {Has(3992025, 819)}, <<Take(3992025, 819), Also("setStr"), Also("setDex"), Also("setInt"),
      Also("setLuk"), Also("setHp"), Also("setMp"), Also("setWatk"), Also("setMatk"), Also("setOwner"),
      Take(Some, Some), Give(Some, Some), Ok, Dispose>>, 0),
  T(11, Yes, {Has(3992025, 819)}, <<Take(3992025, 819), Give(3992025, Some), Ok, Dispose>>, 0),
  T(12, Yes, {}, <<Ok, Dispose>>, 0),
  T(12, Yes, {Has(3992025, 1009)}, <<Take(3992025, 1009), Take(2530000, Some), YesNo>>, 13),
  T(12, Yes, {Has(3992025, 1009)}, <<Take(3992025, 1009), Also("setStr"), Also("setDex"), Also("setInt"),
      Also("setLuk"), Also("setHp"), Also("setMp"), Also("setWatk"), Also("setMatk"), Also("setOwner"),
      Take(Some, Some), Give(Some, Some), Ok, Dispose>>, 0),
  T(12, Yes, {Has(3992025, 1009)}, <<Take(3992025, 1009), Give(3992025, Some), Ok, Dispose>>, 0),
  T(13, Yes, {}, <<Also("setStr"), Also("setDex"), Also("setInt"), Also("setLuk"), Also("setHp"),
      Also("setMp"), Also("setWatk"), Also("setMatk"), Also("setOwner"), Dispose, Take(Some, Some),
      Give(Some, Some), Ok, Fail>>, 0) }

\* lines 5 to 114 of 9310059_4.js
npc_9310059_4a == {
  T(0, Start, {}, <<Say>>, 1),
  T(1, Yes, {}, <<Menu>>, 2),
  T(2, Yes, {}, <<Ok, Dispose>>, 0),
  T(2, Yes, {Has(2640010, 1)}, <<Menu>>, 3),
  T(2, Yes, {Has(2640011, 1)}, <<Menu>>, 4),
  T(2, Yes, {Has(2615001, 1)}, <<Menu>>, 5),
  T(3, Yes, {}, <<YesNo>>, 6),
  T(3, Yes, {}, <<Ok, Dispose>>, 0),
  T(3, Yes, {}, <<YesNo>>, 7),
  T(4, Yes, {}, <<YesNo>>, 8),
  T(4, Yes, {}, <<Ok, Dispose>>, 0),
  T(4, Yes, {}, <<YesNo>>, 9),
  T(5, Yes, {}, <<YesNo>>, 9),
  T(5, Yes, {}, <<Ok, Dispose>>, 0),
  T(5, Yes, {}, <<YesNo>>, 10),
  T(6, Both, {}, <<Ok, Dispose>>, 0),
  T(6, No, {}, <<Dispose>>, 0) }

\* lines 115 to 259 of 9310059_4.js
npc_9310059_4b == {
  T(5, Yes, {}, <<Ok, Dispose>>, 0),
  T(6, Yes, {Has(2340000, 1)}, <<Fail>>, 0),
  T(6, Both, {}, <<Ok, Dispose>>, 0),
  T(7, Yes, {}, <<Fail>>, 0),
  T(7, Yes, {}, <<Ok, Dispose>>, 0),
  T(7, No, {}, <<Dispose>>, 0),
  T(8, Yes, {}, <<Fail>>, 0),
  T(8, Both, {}, <<Ok, Dispose>>, 0),
  T(8, No, {Has(2340000, 1)}, <<Fail>>, 0),
  T(9, Both, {}, <<Fail>>, 0),
  T(9, Both, {}, <<Ok, Dispose>>, 0),
  T(10, No, {}, <<Ok, Dispose>>, 0) }

\* lines 260 to 389 of 9310059_4.js
npc_9310059_4c == {
  T(9, Both, {}, <<Fail>>, 0),
  T(9, Both, {}, <<Ok, Dispose>>, 0),
  T(10, Yes, {}, <<>>, 0),
  T(10, No, {}, <<Fail>>, 0),
  T(10, No, {}, <<Ok, Dispose>>, 0) }

\* lines 11 to 160 of 9310059_5.js
npc_9310059_5a == {
  T(0, Start, {}, <<Menu>>, 1),
  T(0, Start, {}, <<Say>>, 1),
  T(1, Yes, {}, <<Menu>>, 2),
  T(2, Yes, {Has(2049100, 1), Rich(5000001)}, <<Menu>>, 3),
  T(2, Yes, {}, <<Ok, Dispose>>, 0),
  T(2, Yes, {Has(2049100, 1)}, <<Menu>>, 4),
  T(3, Yes, {}, <<YesNo>>, 5),
  T(3, Yes, {}, <<YesNo>>, 6),
  T(4, Yes, {}, <<YesNo>>, 7),
  T(4, Yes, {}, <<YesNo>>, 8),
  T(5, Yes, {Has(2340000, 1)}, <<Take(2049100, 1), Take(2340000, 1), Pay(5000000), Ok, Dispose>>, 0),
  T(5, Yes, {Has(2340000, 1)}, <<Take(2049100, 1), Take(2340000, 1), Pay(5000000), YesNo>>, 9),
  T(5, Both, {}, <<Ok, Dispose>>, 0),
  T(6, Yes, {}, <<Fail>>, 0),
  T(6, Yes, {}, <<Pay(5000000), Take(2049100, 1), YesNo>>, 9),
  T(6, Both, {}, <<Ok, Dispose>>, 0),
  T(7, Both, {}, <<Ok, Dispose>>, 0),
  T(8, Both, {}, <<Ok, Dispose>>, 0),
  T(9, No, {}, <<Ok, Dispose>>, 0) }

\* lines 161 to 495 of 9310059_5.js
npc_9310059_5b == {
  T(7, Yes, {Has(2340000, 1)}, <<Take(2049100, 1), Take(2340000, 1), Also("gainNX"), Ok, Dispose>>, 0),
  T(7, Yes, {Has(2340000, 1)}, <<Take(2049100, 1), Take(2340000, 1), Also("gainNX"), YesNo>>, 9),
  T(7, Both, {}, <<Ok, Dispose>>, 0),
  T(8, Yes, {}, <<Fail>>, 0),
  T(8, Yes, {}, <<Take(2049100, 1), Also("gainNX"), YesNo>>, 9),
  T(8, Both, {}, <<Ok, Dispose>>, 0),
  T(9, Yes, {}, <<Fail>>, 0) }

npc_9310059_6 == {
  T(0, Start, {}, <<Say>>, 1),
  T(1, Yes, {}, <<Ok>>, 2),
  T(1, Yes, {}, <<YesNo>>, 3),
  T(2, Yes, {}, <<Say>>, 1),
  T(3, Yes, {}, <<Ok>>, 2),
  T(3, Yes, {Has(4000000, 200), Has(4000134, 100), Has(4000175, 2), Rich(5000000)}, <<Take(4000000, 200),
      Take(4000175, 2), Take(4000134, 100), Pay(5000000), Also("setWatk"), Also("setMatk"), Also("setStr"),
      Also("setDex"), Also("setInt"), Also("setLuk"), Also("setLocked"), Take(Some, Some), Give(Some, Some),
      Also("setBossLog"), Ok>>, 2),
  T(3, No, {}, <<Say>>, 1) }

\* lines 1 to 123 of 9310059_7.js
npc_9310059_7a == {
  T(0, Start, {}, <<Menu>>, 1),
  T(1, Yes, {}, <<Say>>, 2),
  T(1, Yes, {}, <<Say>>, 3),
  T(4, Yes, {}, <<>>, 0) }

\* lines 124 to 510 of 9310059_7.js
npc_9310059_7b == {
  T(2, Yes, {}, <<Ok, Dispose, Also("gainDY"), Ok, Dispose>>, 0),
  T(2, Yes, {}, <<Ok, Dispose, Also("setMp"), Also("gainDY"), Ok, Fail>>, 0),
  T(2, Yes, {}, <<Ok, Dispose, Ok, Dispose>>, 0),
  T(3, Yes, {}, <<Ok, Dispose, Also("gainNX"), Ok, Dispose>>, 0),
  T(3, Yes, {}, <<Ok, Dispose, Also("setHp"), Also("gainNX"), Ok, Fail>>, 0),
  T(3, Yes, {}, <<Ok, Dispose, Ok, Dispose>>, 0),
  T(3, Yes, {}, <<Ok, Dispose>>, 0) }

\* lines 511 to 697 of 9310059_7.js
npc_9310059_7c == {
  T(2, Yes, {}, <<Ok, Dispose, Also("gainDY"), Ok, Dispose>>, 0),
  T(2, Yes, {}, <<Ok, Dispose, Also("setMp"), Also("gainDY"), Ok, Fail>>, 0),
  T(2, Yes, {}, <<Ok, Dispose, Ok, Dispose>>, 0),
  T(2, Yes, {}, <<Also("gainDY"), Ok, Dispose>>, 0),
  T(2, Yes, {}, <<Also("setMp"), Also("gainDY"), Ok, Fail>>, 4),
  T(2, Yes, {}, <<Ok, Dispose>>, 0),
  T(3, Yes, {}, <<Ok, Dispose, Also("gainNX"), Ok, Dispose>>, 0),
  T(3, Yes, {}, <<Ok, Dispose, Also("setHp"), Also("gainNX"), Ok, Fail>>, 0),
  T(3, Yes, {}, <<Also("gainNX"), Ok, Dispose>>, 0),
  T(3, Yes, {}, <<Also("setHp"), Also("gainNX"), Ok, Fail>>, 4) }

npc_9310059_10 == {
  T(0, Start, {}, <<Ok, Dispose>>, 0),
  T(0, Start, {}, <<Menu>>, 1),
  T(1, Yes, {}, <<Ok, Dispose>>, 0),
  T(1, Yes, {}, <<Dispose, OpenNpc>>, 0) }

npc_9310059_20 == {
  T(0, Start, {}, <<Say>>, 1),
  T(1, Yes, {}, <<Ok>>, 2),
  T(1, Yes, {}, <<YesNo>>, 3),
  T(2, Yes, {}, <<Say>>, 1),
  T(3, Yes, {}, <<Ok>>, 2),
  T(3, Yes, {Has(3992010, 100)}, <<Take(3992010, 100), Also("setWatk"), Also("setMatk"), Also("setStr"),
      Also("setDex"), Also("setInt"), Also("setLuk"), Take(Some, Some), Give(Some, Some), Also("setBossLog"),
      Ok>>, 2),
  T(3, Yes, {Has(3992010, 100)}, <<Take(3992010, 100), Also("setWatk"), Also("setMatk"), Also("setStr"),
      Also("setDex"), Also("setInt"), Also("setLuk"), Also("setLocked"), Take(Some, Some), Give(Some, Some),
      Also("setBossLog"), Ok, Fail>>, 4),
  T(3, No, {}, <<Say>>, 1),
  T(4, Yes, {}, <<>>, 0) }

npc_9310059_522 == {
  T(0, Start, {}, <<Ok, Dispose>>, 0),
  T(0, Start, {}, <<Menu>>, 1),
  T(1, Yes, {}, <<Ok, Dispose>>, 0),
  T(1, Yes, {}, <<YesNo>>, 2),
  T(1, Yes, {}, <<YesNo>>, 3),
  T(1, Yes, {}, <<YesNo>>, 4),
  T(1, Yes, {}, <<YesNo>>, 5),
  T(2, Yes, {Rich(10000001)}, <<Take(Some, 1), Give(Some, 1), Pay(10000000), Ok, Dispose>>, 0),
  T(2, Yes, {}, <<Ok, Dispose>>, 0),
  T(2, No, {}, <<Dispose>>, 0),
  T(3, Yes, {}, <<Take(Some, 1), Give(Some, 1), Also("gainNX"), Ok, Dispose>>, 0),
  T(3, Yes, {}, <<Ok, Dispose>>, 0),
  T(3, No, {}, <<Dispose>>, 0),
  T(4, Yes, {Has(4032398, 5)}, <<Take(Some, 1), Give(Some, 1), Take(4032398, 5), Ok, Dispose>>, 0),
  T(4, Yes, {}, <<Ok, Dispose>>, 0),
  T(4, No, {}, <<Dispose>>, 0),
  T(5, Yes, {}, <<Take(Some, 1), Give(Some, 1), Also("setmoneyb"), Ok, Dispose>>, 0),
  T(5, Yes, {}, <<Ok, Dispose>>, 0),
  T(5, No, {}, <<Dispose>>, 0) }

npc_9310070 == {
  T(0, Start, {}, <<Menu>>, 1),
  T(1, Yes, {}, <<Dispose, OpenNpc>>, 0) }

\* lines 1 to 158 of 9310071.js
npc_9310071a == {
  T(0, Start, {}, <<Menu>>, 1),
  T(1, Yes, {}, <<Ok, Dispose>>, 0),
  T(1, Yes, {Has(4001126, 200), Has(4310034, 1)}, <<Take(4310034, 1), Take(4001126, 200), Also("setFlag"),
      Also("setStr"), Also("setDex"), Also("setInt"), Also("setLuk"), Also("setHp"), Also("setMp"),
      Also("setWatk"), Also("setMatk"), Also("setWdef"), Also("setMdef"), Also("setAcc"), Also("setAvoid"),
      Also("setHands"), Also("setSpeed"), Also("setJump"), Also("setOwner"), Dispose, Take(Some, Some),
      Give(Some, Some), Ok, Dispose>>, 0),
  T(1, Yes, {Has(4001126, 200), Has(4310034, 1)}, <<Take(4310034, 1), Take(4001126, 200), Also("setFlag"),
      Also("setStr"), Also("setDex"), Also("setInt"), Also("setLuk"), Also("setHp"), Also("setMp"),
      Also("setWatk"), Also("setMatk"), Also("setWatk"), Also("setMatk"), Also("setWdef"), Also("setMdef"),
      Also("setAcc"), Also("setAvoid"), Also("setHands"), Also("setSpeed"), Also("setJump"),
      Also("setOwner"), Dispose, Take(Some, Some), Give(Some, Some), Ok, Dispose>>, 0),
  T(1, Yes, {}, <<Dispose, OpenNpc>>, 0) }

\* lines 159 to 290 of 9310071.js
npc_9310071b == {
  T(1, Yes, {}, <<Ok, Dispose>>, 0),
  T(1, Yes, {Has(4001126, 400), Has(4310034, 5)}, <<Take(4310034, 5), Take(4001126, 400), Also("setFlag"),
      Also("setStr"), Also("setDex"), Also("setInt"), Also("setLuk"), Also("setHp"), Also("setMp"),
      Also("setWdef"), Also("setMdef"), Also("setAcc"), Also("setAvoid"), Also("setHands"), Also("setSpeed"),
      Also("setJump"), Also("setOwner"), Dispose, Take(Some, Some), Give(Some, Some), Ok, Dispose>>, 0),
  T(1, Yes, {Has(4001126, 400), Has(4310034, 5)}, <<Take(4310034, 5), Take(4001126, 400), Also("setFlag"),
      Also("setStr"), Also("setDex"), Also("setInt"), Also("setLuk"), Also("setHp"), Also("setMp"),
      Also("setWatk"), Also("setMatk"), Also("setWdef"), Also("setMdef"), Also("setAcc"), Also("setAvoid"),
      Also("setHands"), Also("setSpeed"), Also("setJump"), Also("setOwner"), Dispose, Take(Some, Some),
      Give(Some, Some), Ok, Dispose>>, 0) }

\* lines 1 to 151 of 9310071_1.js
npc_9310071_1a == {
  T(0, Start, {}, <<Menu>>, 1),
  T(1, Yes, {}, <<Ok, Dispose>>, 0),
  T(1, Yes, {Has(2340000, 5), Has(4001126, 500), Has(4310029, 8)}, <<Take(4310029, 8), Take(2340000, 5),
      Take(4001126, 500), Also("setFlag"), Also("setStr"), Also("setDex"), Also("setInt"), Also("setLuk"),
      Also("setHp"), Also("setMp"), Also("setWdef"), Also("setMdef"), Also("setAcc"), Also("setAvoid"),
      Also("setHands"), Also("setSpeed"), Also("setJump"), Also("setOwner"), Dispose, Take(Some, Some),
      Give(Some, Some), Ok, Dispose>>, 0),
  T(1, Yes, {Has(2340000, 5), Has(4001126, 500), Has(4310029, 8)}, <<Take(4310029, 8), Take(2340000, 5),
      Take(4001126, 500), Also("setFlag"), Also("setStr"), Also("setDex"), Also("setInt"), Also("setLuk"),
      Also("setHp"), Also("setMp"), Also("setWatk"), Also("setMatk"), Also("setWdef"), Also("setMdef"),
      Also("setAcc"), Also("setAvoid"), Also("setHands"), Also("setSpeed"), Also("setJump"),
      Also("setOwner"), Dispose, Take(Some, Some), Give(Some, Some), Ok, Dispose>>, 0) }

\* lines 152 to 326 of 9310071_1.js
npc_9310071_1b == {
  T(1, Yes, {}, <<Ok, Dispose>>, 0),
  T(1, Yes, {Has(2340000, 5), Has(4001126, 500), Has(4310029, 8)}, <<Take(4310029, 8), Take(2340000, 5),
      Take(4001126, 500), Also("setFlag"), Also("setStr"), Also("setDex"), Also("setInt"), Also("setLuk"),
      Also("setHp"), Also("setMp"), Also("setWdef"), Also("setMdef"), Also("setAcc"), Also("setAvoid"),
      Also("setHands"), Also("setSpeed"), Also("setJump"), Also("setOwner"), Dispose, Take(Some, Some),
      Give(Some, Some), Ok, Dispose>>, 0),
  T(1, Yes, {Has(2340000, 5), Has(4001126, 500), Has(4310029, 8)}, <<Take(4310029, 8), Take(2340000, 5),
      Take(4001126, 500), Also("setFlag"), Also("setStr"), Also("setDex"), Also("setInt"), Also("setLuk"),
      Also("setHp"), Also("setMp"), Also("setWatk"), Also("setMatk"), Also("setWdef"), Also("setMdef"),
      Also("setAcc"), Also("setAvoid"), Also("setHands"), Also("setSpeed"), Also("setJump"),
      Also("setOwner"), Dispose, Take(Some, Some), Give(Some, Some), Ok, Dispose>>, 0),
  T(1, Yes, {Has(2340000, 10), Has(4001126, 1000), Has(4310029, 10)}, <<Take(4310029, 10), Take(2340000, 10),
      Take(4001126, 1000), Also("setFlag"), Also("setStr"), Also("setDex"), Also("setInt"), Also("setLuk"),
      Also("setHp"), Also("setMp"), Also("setWdef"), Also("setMdef"), Also("setAcc"), Also("setAvoid"),
      Also("setHands"), Also("setSpeed"), Also("setJump"), Also("setOwner"), Dispose, Take(Some, Some),
      Give(Some, Some), Ok, Dispose>>, 0),
  T(1, Yes, {Has(2340000, 10), Has(4001126, 1000), Has(4310029, 10)}, <<Take(4310029, 10), Take(2340000, 10),
      Take(4001126, 1000), Also("setFlag"), Also("setStr"), Also("setDex"), Also("setInt"), Also("setLuk"),
      Also("setHp"), Also("setMp"), Also("setWatk"), Also("setMatk"), Also("setWdef"), Also("setMdef"),
      Also("setAcc"), Also("setAvoid"), Also("setHands"), Also("setSpeed"), Also("setJump"),
      Also("setOwner"), Dispose, Take(Some, Some), Give(Some, Some), Ok, Dispose>>, 0) }

\* lines 327 to 525 of 9310071_1.js
npc_9310071_1c == {
  T(1, Yes, {}, <<Ok, Dispose>>, 0),
  T(1, Yes, {Has(2340000, 12), Has(4001126, 2000), Has(4310029, 12)}, <<Take(4310029, 12), Take(2340000, 12),
      Take(4001126, 2000), Also("setFlag"), Also("setStr"), Also("setDex"), Also("setInt"), Also("setLuk"),
      Also("setHp"), Also("setMp"), Also("setWdef"), Also("setMdef"), Also("setAcc"), Also("setAvoid"),
      Also("setHands"), Also("setSpeed"), Also("setJump"), Also("setOwner"), Dispose, Take(Some, Some),
      Give(Some, Some), Ok, Dispose>>, 0),
  T(1, Yes, {Has(2340000, 12), Has(4001126, 2000), Has(4310029, 12)}, <<Take(4310029, 12), Take(2340000, 12),
      Take(4001126, 2000), Also("setFlag"), Also("setStr"), Also("setDex"), Also("setInt"), Also("setLuk"),
      Also("setHp"), Also("setMp"), Also("setWatk"), Also("setMatk"), Also("setWdef"), Also("setMdef"),
      Also("setAcc"), Also("setAvoid"), Also("setHands"), Also("setSpeed"), Also("setJump"),
      Also("setOwner"), Dispose, Take(Some, Some), Give(Some, Some), Ok, Dispose>>, 0) }

npc_9310071_109 == {
  T(0, Start, {}, <<Menu>>, 1),
  T(1, Yes, {}, <<Ok, Dispose>>, 0),
  T(1, Yes, {Rich(20000000)}, <<Pay(20000000), Also("setFlag"), Also("setStr"), Also("setDex"),
      Also("setInt"), Also("setLuk"), Also("setHp"), Also("setMp"), Also("setWatk"), Also("setMatk"),
      Also("setWdef"), Also("setMdef"), Also("setAcc"), Also("setAvoid"), Also("setHands"), Also("setSpeed"),
      Also("setJump"), Dispose, Take(Some, Some), Give(Some, Some), Ok, Dispose>>, 0),
  T(1, Yes, {Rich(20000000)}, <<Pay(20000000), Also("setFlag"), Also("setStr"), Also("setDex"),
      Also("setInt"), Also("setLuk"), Also("setHp"), Also("setMp"), Also("setWatk"), Also("setMatk"),
      Also("setWatk"), Also("setMatk"), Also("setWdef"), Also("setMdef"), Also("setAcc"), Also("setAvoid"),
      Also("setHands"), Also("setSpeed"), Also("setJump"), Dispose, Take(Some, Some), Give(Some, Some), Ok,
      Dispose>>, 0) }

npc_9310072 == {
  T(0, Start, {}, <<Menu>>, 1),
  T(1, Yes, {}, <<Dispose, OpenNpc>>, 0) }

npc_9310072_49 == {
  T(0, Start, {}, <<Menu>>, 1),
  T(1, Yes, {}, <<Dispose, OpenNpc>>, 0) }

npc_9310072_50 == {
  T(0, Start, {}, <<Menu>>, 1),
  T(1, Yes, {}, <<Dispose, OpenNpc>>, 0) }

\* lines 1 to 118 of 9310072_51.js
npc_9310072_51a == {
  T(0, Start, {}, <<Menu>>, 1),
  T(1, Yes, {Has(3600001, 20), Rich(100000), Room(4, 2)}, <<Pay(100000), Take(3600001, 20), Give(4310034, 1),
      Dispose>>, 0),
  T(1, Yes, {Lacks(3600001, 20), Rich(100000), Room(4, 2)}, <<Ok, Dispose>>, 0),
  T(1, Yes, {Poor(100000), Room(4, 2)}, <<Ok, Dispose>>, 0),
  T(1, Yes, {Full(4, 2)}, <<Ok, Dispose>>, 0),
  T(1, Yes, {Has(3600001, 30), Rich(100000), Room(4, 2)}, <<Pay(100000), Take(3600001, 30), Give(4310029, 1),
      Dispose>>, 0),
  T(1, Yes, {Lacks(3600001, 30), Rich(100000), Room(4, 2)}, <<Ok, Dispose>>, 0),
  T(1, Yes, {Lacks(4170005, 10), Rich(1000000), Room(4, 2)}, <<Ok, Dispose>>, 0),
  T(1, Yes, {Poor(1000000), Room(4, 2)}, <<Ok, Dispose>>, 0),
  T(1, Yes, {Lacks(4170006, 10), Rich(1000000), Room(4, 2)}, <<Ok, Dispose>>, 0),
  T(1, Yes, {Lacks(4310150, 15), Rich(1000000), Room(4, 2)}, <<Ok, Dispose>>, 0),
  T(1, Yes, {Lacks(4032391, 100), Rich(1000000), Room(2, 2)}, <<Ok, Dispose>>, 0),
  T(1, Yes, {Poor(1000000), Room(2, 2)}, <<Ok, Dispose>>, 0),
  T(1, Yes, {Full(2, 2)}, <<Ok, Dispose>>, 0),
  T(1, Yes, {Lacks(4032392, 100), Rich(1000000), Room(2, 2)}, <<Ok, Dispose>>, 0),
  T(1, Yes, {Has(1902001, 1), Rich(1000000), Room(1, 2)}, <<Ok, Dispose>>, 0),
  T(1, Yes, {Lacks(1902001, 1), Lacks(4170002, 30), Rich(1000000), Room(1, 2)}, <<Ok, Dispose>>, 0),
  T(1, Yes, {Poor(1000000), Room(1, 2)}, <<Ok, Dispose>>, 0),
  T(1, Yes, {Full(1, 2)}, <<Ok, Dispose>>, 0) }

\* lines 119 to 264 of 9310072_51.js
npc_9310072_51b == {
  T(1, Yes, {Lacks(3600001, 20), Rich(100000), Room(4, 2)}, <<Ok, Dispose>>, 0),
  T(1, Yes, {Poor(100000), Room(4, 2)}, <<Ok, Dispose>>, 0),
  T(1, Yes, {Full(4, 2)}, <<Ok, Dispose>>, 0),
  T(1, Yes, {Lacks(3600001, 30), Rich(100000), Room(4, 2)}, <<Ok, Dispose>>, 0),
  T(1, Yes, {Has(4170005, 10), Rich(1000000), Room(4, 2)}, <<Pay(1000000), Take(4170005, 10), Give(4310034,
      1), Dispose>>, 0),
  T(1, Yes, {Lacks(4170005, 10), Rich(1000000), Room(4, 2)}, <<Ok, Dispose>>, 0),
  T(1, Yes, {Poor(1000000), Room(4, 2)}, <<Ok, Dispose>>, 0),
  T(1, Yes, {Has(4170006, 10), Rich(1000000), Room(4, 2)}, <<Pay(1000000), Take(4170006, 10), Give(4310029,
      1), Dispose>>, 0),
  T(1, Yes, {Lacks(4170006, 10), Rich(1000000), Room(4, 2)}, <<Ok, Dispose>>, 0),
  T(1, Yes, {Has(4310150, 15), Rich(1000000), Room(4, 2)}, <<Pay(1000000), Take(4310150, 15), Give(4310148,
      1), Dispose>>, 0),
  T(1, Yes, {Lacks(4310150, 15), Rich(1000000), Room(4, 2)}, <<Ok, Dispose>>, 0),
  T(1, Yes, {Has(4032391, 100), Rich(1000000), Room(2, 2)}, <<Pay(1000000), Take(4032391, 100), Give(2340000,
      1), Dispose>>, 0),
  T(1, Yes, {Lacks(4032391, 100), Rich(1000000), Room(2, 2)}, <<Ok, Dispose>>, 0),
  T(1, Yes, {Poor(1000000), Room(2, 2)}, <<Ok, Dispose>>, 0),
  T(1, Yes, {Full(2, 2)}, <<Ok, Dispose>>, 0),
  T(1, Yes, {Has(4032392, 100), Rich(1000000), Room(2, 2)}, <<Pay(1000000), Take(4032392, 100), Give(2049118,
      1), Dispose>>, 0),
  T(1, Yes, {Lacks(4032392, 100), Rich(1000000), Room(2, 2)}, <<Ok, Dispose>>, 0),
  T(1, Yes, {Has(1902001, 1), Rich(1000000), Room(1, 2)}, <<Ok, Dispose>>, 0),
  T(1, Yes, {Has(4170002, 30), Lacks(1902001, 1), Rich(1000000), Room(1, 2)}, <<Pay(1000000), Take(4170002,
      30), Give(1902001, 1), Dispose>>, 0),
  T(1, Yes, {Lacks(1902001, 1), Lacks(4170002, 30), Rich(1000000), Room(1, 2)}, <<Ok, Dispose>>, 0),
  T(1, Yes, {Poor(1000000), Room(1, 2)}, <<Ok, Dispose>>, 0),
  T(1, Yes, {Full(1, 2)}, <<Ok, Dispose>>, 0) }

\* lines 4 to 104 of 9310074.js
npc_9310074a == {
  T(0, Start, {}, <<Ok, Dispose>>, 0),
  T(0, Start, {}, <<Menu>>, 1),
  T(1, Yes, {}, <<Ok, Dispose>>, 0),
  T(1, Yes, {}, <<Dispose, OpenNpc>>, 0),
  T(1, Yes, {Has(4001128, 1000)}, <<Also("setBossLog"), Take(4001128, 1000), Give(4000313, 50), Give(2049118,
      1), Give(2340000, 1), Ok, Dispose>>, 0) }

\* lines 105 to 245 of 9310074.js
npc_9310074b == {
  T(1, Yes, {}, <<Ok, Dispose>>, 0),
  T(1, Yes, {}, <<Dispose, OpenNpc>>, 0),
  T(1, Yes, {}, <<Also("warp"), Ok, Dispose>>, 0) }

npc_9310074_1 == {
  T(0, Start, {}, <<Ok, Dispose>>, 0),
  T(0, Start, {}, <<Menu>>, 1),
  T(1, Yes, {}, <<Ok, Dispose>>, 0),
  T(1, Yes, {}, <<Dispose, OpenNpc>>, 0) }

\* lines 7 to 105 of 9330045.js
npc_9330045a == {
  T(0, Start, {}, <<Menu>>, 1),
  T(0, Start, {}, <<Ok, Dispose>>, 0),
  T(1, Yes, {}, <<Also("warp"), Dispose>>, 0) }

\* lines 106 to 257 of 9330045.js
npc_9330045b == {
  T(1, Yes, {}, <<Dispose, OpenNpc>>, 0) }

npc_9330045_1 == {
  T(0, Start, {}, <<Fail>>, 0) }

\* lines 3 to 718 of 9330045_2.js
npc_9330045_2a == {
  T(0, Start, {}, <<Menu>>, 1) }

\* lines 719 to 1587 of 9330045_2.js
npc_9330045_2b == {
  T(1, Yes, {}, <<Menu>>, 2),
  T(2, Yes, {}, <<Fail>>, 0) }

npc_9330045_3 == {
  T(0, Start, {Has(4001200, 1)}, <<YesNo>>, 1),
  T(0, Start, {Lacks(4001200, 1)}, <<Ok, SafeDispose>>, 0),
  T(1, Yes, {}, <<Ok, Take(4001200, 5), Give(4001322, 1), SafeDispose>>, 0),
  T(1, Yes, {Room(0, 1)}, <<Give(Some, Some), Take(4001200, 5), Ok, SafeDispose>>, 0),
  T(1, Yes, {}, <<Ok, SafeDispose>>, 0),
  T(1, No, {}, <<Ok, Dispose>>, 0) }

npc_9330045_100 == {
  T(0, Start, {}, <<Menu>>, 1),
  T(0, Start, {}, <<Ok, Dispose>>, 0),
  T(1, Yes, {Has(3011000, 1)}, <<Ok>>, 2),
  T(1, Yes, {Lacks(3011000, 1), Rich(3000000), Room(3, 1)}, <<Pay(3000000), Give(3011000, 1), Ok, Dispose>>, 0),
  T(1, Yes, {}, <<Ok, Dispose>>, 0),
  T(1, Yes, {Lacks(5340001, 1)}, <<Also("gainNX"), Give(5340001, 1), Ok, Dispose>>, 0),
  T(1, Yes, {Room(2, 1)}, <<Also("gainNX"), Give(2300001, 100), Ok, Dispose>>, 0),
  T(1, Yes, {Rich(2000000), Room(2, 1)}, <<Pay(2000000), Give(2300000, 100), Ok, Dispose>>, 0),
  T(1, Yes, {Rich(10000000), Room(2, 1)}, <<Pay(10000000), Give(2300000, 500), Ok, Dispose>>, 0),
  T(1, Yes, {Room(2, 1)}, <<Also("gainNX"), Give(2300001, 500), Ok, Dispose>>, 0),
  T(1, Yes, {}, <<Also("warp"), Dispose>>, 0),
  T(2, Yes, {}, <<>>, 0) }

\* lines 9 to 159 of 9330045_10011.js
npc_9330045_10011a == {
  T(0, Start, {Has(4200007, 1)}, <<Ok, Dispose, Menu>>, 0),
  T(0, Start, {Lacks(4200007, 1)}, <<Menu>>, 1),
  T(1, Yes, {Has(4031627, 1)}, <<Number>>, 2),
  T(1, Yes, {Lacks(4031627, 1)}, <<Say>>, 3),
  T(1, Yes, {Has(4031627, 1)}, <<Ok, Dispose, Number>>, 0),
  T(1, Yes, {Lacks(4031627, 1)}, <<Ok, Dispose, Say>>, 0),
  T(1, Yes, {Has(4031633, 1)}, <<Number>>, 4),
  T(1, Yes, {Lacks(4031633, 1)}, <<Say>>, 3),
  T(1, Yes, {Has(4031633, 1)}, <<Ok, Dispose, Number>>, 0),
  T(1, Yes, {Lacks(4031633, 1)}, <<Ok, Dispose, Say>>, 0),
  T(1, Yes, {Has(4031634, 1)}, <<Number>>, 5),
  T(1, Yes, {Lacks(4031634, 1)}, <<Say>>, 3),
  T(1, Yes, {Has(4031634, 1)}, <<Ok, Dispose, Number>>, 0),
  T(1, Yes, {Lacks(4031634, 1)}, <<Ok, Dispose, Say>>, 0),
  T(1, Yes, {Has(4031635, 1)}, <<Number>>, 6),
  T(1, Yes, {Lacks(4031635, 1)}, <<Say>>, 3),
  T(1, Yes, {Has(4031635, 1)}, <<Ok, Dispose, Number>>, 0),
  T(1, Yes, {Lacks(4031635, 1)}, <<Ok, Dispose, Say>>, 0),
  T(1, Yes, {Has(4031630, 1)}, <<Number>>, 7),
  T(1, Yes, {Lacks(4031630, 1)}, <<Say>>, 3),
  T(1, Yes, {Has(4031630, 1)}, <<Ok, Dispose, Number>>, 0),
  T(1, Yes, {Lacks(4031630, 1)}, <<Ok, Dispose, Say>>, 0),
  T(1, Yes, {Has(4031637, 1)}, <<Number>>, 8),
  T(1, Yes, {Lacks(4031637, 1)}, <<Say>>, 3),
  T(1, Yes, {Has(4031637, 1)}, <<Ok, Dispose, Number>>, 0),
  T(1, Yes, {Lacks(4031637, 1)}, <<Ok, Dispose, Say>>, 0),
  T(1, Yes, {Has(4031638, 1)}, <<Number>>, 9),
  T(1, Yes, {Lacks(4031638, 1)}, <<Say>>, 3),
  T(1, Yes, {Has(4031638, 1)}, <<Ok, Dispose, Number>>, 0),
  T(1, Yes, {Lacks(4031638, 1)}, <<Ok, Dispose, Say>>, 0),
  T(1, Yes, {Has(4031639, 1)}, <<Number>>, 10),
  T(1, Yes, {Lacks(4031639, 1)}, <<Say>>, 3),
  T(1, Yes, {Has(4031639, 1)}, <<Ok, Dispose, Number>>, 0),
  T(1, Yes, {Lacks(4031639, 1)}, <<Ok, Dispose, Say>>, 0),
  T(1, Yes, {Has(4031628, 1)}, <<Number>>, 11),
  T(1, Yes, {Lacks(4031628, 1)}, <<Say>>, 3),
  T(1, Yes, {Has(4031628, 1)}, <<Ok, Dispose, Number>>, 0),
  T(1, Yes, {Lacks(4031628, 1)}, <<Ok, Dispose, Say>>, 0),
  T(1, Yes, {Lacks(4031641, 1)}, <<Say>>, 3),
  T(1, Yes, {Has(4031641, 1)}, <<Ok, Dispose, Number>>, 0),
  T(1, Yes, {Lacks(4031641, 1)}, <<Ok, Dispose, Say>>, 0),
  T(1, Yes, {Lacks(4031642, 1)}, <<Say>>, 3),
  T(1, Yes, {Has(4031642, 1)}, <<Ok, Dispose, Number>>, 0),
  T(1, Yes, {Lacks(4031642, 1)}, <<Ok, Dispose, Say>>, 0),
  T(1, Yes, {Lacks(4031643, 1)}, <<Say>>, 3),
  T(1, Yes, {Has(4031643, 1)}, <<Ok, Dispose, Number>>, 0),
  T(1, Yes, {Lacks(4031643, 1)}, <<Ok, Dispose, Say>>, 0),
  T(1, Yes, {Lacks(4031631, 1)}, <<Say>>, 3),
  T(1, Yes, {Has(4031631, 1)}, <<Ok, Dispose, Number>>, 0),
  T(1, Yes, {Lacks(4031631, 1)}, <<Ok, Dispose, Say>>, 0),
  T(1, Yes, {Lacks(4031645, 1)}, <<Say>>, 3),
  T(1, Yes, {Has(4031645, 1)}, <<Ok, Dispose, Number>>, 0),
  T(1, Yes, {Lacks(4031645, 1)}, <<Ok, Dispose, Say>>, 0),
  T(1, Yes, {Lacks(4031646, 1)}, <<Say>>, 3),
  T(1, Yes, {Has(4031646, 1)}, <<Ok, Dispose, Number>>, 0),
  T(1, Yes, {Lacks(4031646, 1)}, <<Ok, Dispose, Say>>, 0),
  T(1, Yes, {Lacks(4031647, 1)}, <<Say>>, 3),
  T(1, Yes, {Has(4031647, 1)}, <<Ok, Dispose, Number>>, 0),
  T(1, Yes, {Lacks(4031647, 1)}, <<Ok, Dispose, Say>>, 0),
  T(2, No, {Has(4200007, 1)}, <<Ok, Dispose, Menu>>, 0),
  T(2, No, {Lacks(4200007, 1)}, <<Menu>>, 1),
  T(3, Yes, {Has(4200007, 1)}, <<Ok, Dispose, Menu>>, 0),
  T(3, Yes, {Lacks(4200007, 1)}, <<Menu>>, 1),
  T(4, No, {Has(4200007, 1)}, <<Ok, Dispose, Menu>>, 0),
  T(4, No, {Lacks(4200007, 1)}, <<Menu>>, 1),
  T(5, No, {Has(4200007, 1)}, <<Ok, Dispose, Menu>>, 0),
  T(5, No, {Lacks(4200007, 1)}, <<Menu>>, 1),
  T(6, No, {Has(4200007, 1)}, <<Ok, Dispose, Menu>>, 0),
  T(6, No, {Lacks(4200007, 1)}, <<Menu>>, 1),
  T(7, No, {Has(4200007, 1)}, <<Ok, Dispose, Menu>>, 0),
  T(7, No, {Lacks(4200007, 1)}, <<Menu>>, 1),
  T(8, No, {Has(4200007, 1)}, <<Ok, Dispose, Menu>>, 0),
  T(8, No, {Lacks(4200007, 1)}, <<Menu>>, 1),
  T(9, No, {Has(4200007, 1)}, <<Ok, Dispose, Menu>>, 0),
  T(9, No, {Lacks(4200007, 1)}, <<Menu>>, 1),
  T(10, No, {Has(4200007, 1)}, <<Ok, Dispose, Menu>>, 0),
  T(10, No, {Lacks(4200007, 1)}, <<Menu>>, 1),
  T(11, No, {Has(4200007, 1)}, <<Ok, Dispose, Menu>>, 0),
  T(11, No, {Lacks(4200007, 1)}, <<Menu>>, 1),
  T(12, No, {Has(4200007, 1)}, <<Ok, Dispose, Menu>>, 0),
  T(12, No, {Lacks(4200007, 1)}, <<Menu>>, 1),
  T(13, No, {Has(4200007, 1)}, <<Ok, Dispose, Menu>>, 0),
  T(13, No, {Lacks(4200007, 1)}, <<Menu>>, 1),
  T(14, No, {Has(4200007, 1)}, <<Ok, Dispose, Menu>>, 0),
  T(14, No, {Lacks(4200007, 1)}, <<Menu>>, 1),
  T(15, No, {Has(4200007, 1)}, <<Ok, Dispose, Menu>>, 0),
  T(15, No, {Lacks(4200007, 1)}, <<Menu>>, 1),
  T(16, No, {Has(4200007, 1)}, <<Ok, Dispose, Menu>>, 0),
  T(16, No, {Lacks(4200007, 1)}, <<Menu>>, 1),
  T(17, No, {Has(4200007, 1)}, <<Ok, Dispose, Menu>>, 0),
  T(17, No, {Lacks(4200007, 1)}, <<Menu>>, 1),
  T(18, No, {Has(4200007, 1)}, <<Ok, Dispose, Menu>>, 0),
  T(18, No, {Lacks(4200007, 1)}, <<Menu>>, 1) }

\* lines 160 to 400 of 9330045_10011.js
npc_9330045_10011b == {
  T(1, Yes, {Lacks(4031627, 1)}, <<Say>>, 3),
  T(1, Yes, {Has(4031627, 1)}, <<Ok, Dispose, Number>>, 0),
  T(1, Yes, {Lacks(4031627, 1)}, <<Ok, Dispose, Say>>, 0),
  T(1, Yes, {Lacks(4031633, 1)}, <<Say>>, 3),
  T(1, Yes, {Has(4031633, 1)}, <<Ok, Dispose, Number>>, 0),
  T(1, Yes, {Lacks(4031633, 1)}, <<Ok, Dispose, Say>>, 0),
  T(1, Yes, {Lacks(4031634, 1)}, <<Say>>, 3),
  T(1, Yes, {Has(4031634, 1)}, <<Ok, Dispose, Number>>, 0),
  T(1, Yes, {Lacks(4031634, 1)}, <<Ok, Dispose, Say>>, 0),
  T(1, Yes, {Lacks(4031635, 1)}, <<Say>>, 3),
  T(1, Yes, {Has(4031635, 1)}, <<Ok, Dispose, Number>>, 0),
  T(1, Yes, {Lacks(4031635, 1)}, <<Ok, Dispose, Say>>, 0),
  T(1, Yes, {Lacks(4031630, 1)}, <<Say>>, 3),
  T(1, Yes, {Has(4031630, 1)}, <<Ok, Dispose, Number>>, 0),
  T(1, Yes, {Lacks(4031630, 1)}, <<Ok, Dispose, Say>>, 0),
  T(1, Yes, {Lacks(4031637, 1)}, <<Say>>, 3),
  T(1, Yes, {Has(4031637, 1)}, <<Ok, Dispose, Number>>, 0),
  T(1, Yes, {Lacks(4031637, 1)}, <<Ok, Dispose, Say>>, 0),
  T(1, Yes, {Lacks(4031638, 1)}, <<Say>>, 3),
  T(1, Yes, {Has(4031638, 1)}, <<Ok, Dispose, Number>>, 0),
  T(1, Yes, {Lacks(4031638, 1)}, <<Ok, Dispose, Say>>, 0),
  T(1, Yes, {Lacks(4031639, 1)}, <<Say>>, 3),
  T(1, Yes, {Has(4031639, 1)}, <<Ok, Dispose, Number>>, 0),
  T(1, Yes, {Lacks(4031639, 1)}, <<Ok, Dispose, Say>>, 0),
  T(1, Yes, {Lacks(4031628, 1)}, <<Say>>, 3),
  T(1, Yes, {Has(4031628, 1)}, <<Ok, Dispose, Number>>, 0),
  T(1, Yes, {Lacks(4031628, 1)}, <<Ok, Dispose, Say>>, 0),
  T(1, Yes, {Has(4031641, 1)}, <<Number>>, 12),
  T(1, Yes, {Lacks(4031641, 1)}, <<Say>>, 3),
  T(1, Yes, {Has(4031641, 1)}, <<Ok, Dispose, Number>>, 0),
  T(1, Yes, {Lacks(4031641, 1)}, <<Ok, Dispose, Say>>, 0),
  T(1, Yes, {Has(4031642, 1)}, <<Number>>, 13),
  T(1, Yes, {Lacks(4031642, 1)}, <<Say>>, 3),
  T(1, Yes, {Has(4031642, 1)}, <<Ok, Dispose, Number>>, 0),
  T(1, Yes, {Lacks(4031642, 1)}, <<Ok, Dispose, Say>>, 0),
  T(1, Yes, {Has(4031643, 1)}, <<Number>>, 14),
  T(1, Yes, {Lacks(4031643, 1)}, <<Say>>, 3),
  T(1, Yes, {Has(4031643, 1)}, <<Ok, Dispose, Number>>, 0),
  T(1, Yes, {Lacks(4031643, 1)}, <<Ok, Dispose, Say>>, 0),
  T(1, Yes, {Has(4031631, 1)}, <<Number>>, 15),
  T(1, Yes, {Lacks(4031631, 1)}, <<Say>>, 3),
  T(1, Yes, {Has(4031631, 1)}, <<Ok, Dispose, Number>>, 0),
  T(1, Yes, {Lacks(4031631, 1)}, <<Ok, Dispose, Say>>, 0),
  T(1, Yes, {Has(4031645, 1)}, <<Number>>, 16),
  T(1, Yes, {Lacks(4031645, 1)}, <<Say>>, 3),
  T(1, Yes, {Has(4031645, 1)}, <<Ok, Dispose, Number>>, 0),
  T(1, Yes, {Lacks(4031645, 1)}, <<Ok, Dispose, Say>>, 0),
  T(1, Yes, {Has(4031646, 1)}, <<Number>>, 17),
  T(1, Yes, {Lacks(4031646, 1)}, <<Say>>, 3),
  T(1, Yes, {Has(4031646, 1)}, <<Ok, Dispose, Number>>, 0),
  T(1, Yes, {Lacks(4031646, 1)}, <<Ok, Dispose, Say>>, 0),
  T(1, Yes, {Has(4031647, 1)}, <<Number>>, 18),
  T(1, Yes, {Lacks(4031647, 1)}, <<Say>>, 3),
  T(1, Yes, {Has(4031647, 1)}, <<Ok, Dispose, Number>>, 0),
  T(1, Yes, {Lacks(4031647, 1)}, <<Ok, Dispose, Say>>, 0),
  T(2, Yes, {Rich(100000)}, <<Take(4031627, Some), Give(4031636, Some), Ok, Dispose>>, 0),
  T(2, Yes, {Poor(100000)}, <<Ok, Dispose, Take(4031627, Some), Give(4031636, Some), Ok, Dispose>>, 0),
  T(2, Yes, {Poor(100000)}, <<Ok, Dispose, Say, Dispose>>, 0),
  T(4, Yes, {Poor(100000)}, <<Ok, Dispose, Take(4031633, Some), Give(4031636, Some), Ok, Dispose>>, 0),
  T(4, Yes, {Poor(100000)}, <<Ok, Dispose, Say, Dispose>>, 0),
  T(5, Yes, {Poor(100000)}, <<Ok, Dispose, Take(4031634, Some), Give(4031636, Some), Ok, Dispose>>, 0),
  T(5, Yes, {Poor(100000)}, <<Ok, Dispose, Say, Dispose>>, 0),
  T(6, Yes, {Poor(100000)}, <<Ok, Dispose, Take(4031635, Some), Give(4031636, Some), Ok, Dispose>>, 0),
  T(6, Yes, {Poor(100000)}, <<Ok, Dispose, Say, Dispose>>, 0),
  T(7, Yes, {Poor(100000)}, <<Ok, Dispose, Take(4031630, Some), Give(4031640, Some), Ok, Dispose>>, 0),
  T(7, Yes, {Poor(100000)}, <<Ok, Dispose, Say, Dispose>>, 0),
  T(8, Yes, {Poor(100000)}, <<Ok, Dispose, Take(4031637, Some), Give(4031640, Some), Ok, Dispose>>, 0),
  T(8, Yes, {Poor(100000)}, <<Ok, Dispose, Say, Dispose>>, 0),
  T(9, Yes, {Poor(100000)}, <<Ok, Dispose, Take(4031638, Some), Give(4031640, Some), Ok, Dispose>>, 0),
  T(9, Yes, {Poor(100000)}, <<Ok, Dispose, Say, Dispose>>, 0),
  T(10, Yes, {Poor(100000)}, <<Ok, Dispose, Take(4031639, Some), Give(4031640, Some), Ok, Dispose>>, 0),
  T(10, Yes, {Poor(100000)}, <<Ok, Dispose, Say, Dispose>>, 0),
  T(11, Yes, {Poor(100000)}, <<Ok, Dispose, Take(4031628, Some), Give(4031644, Some), Ok, Dispose>>, 0),
  T(11, Yes, {Poor(100000)}, <<Ok, Dispose, Say, Dispose>>, 0),
  T(12, Yes, {Poor(100000)}, <<Ok, Dispose, Take(4031641, Some), Give(4031644, Some), Ok, Dispose>>, 0),
  T(12, Yes, {Poor(100000)}, <<Ok, Dispose, Say, Dispose>>, 0),
  T(13, Yes, {Poor(100000)}, <<Ok, Dispose, Take(4031642, Some), Give(4031644, Some), Ok, Dispose>>, 0),
  T(13, Yes, {Poor(100000)}, <<Ok, Dispose, Say, Dispose>>, 0),
  T(14, Yes, {Poor(100000)}, <<Ok, Dispose, Take(4031643, Some), Give(4031644, Some), Ok, Dispose>>, 0),
  T(14, Yes, {Poor(100000)}, <<Ok, Dispose, Say, Dispose>>, 0),
  T(15, Yes, {Poor(100000)}, <<Ok, Dispose, Take(4031631, Some), Give(4031648, Some), Ok, Dispose>>, 0),
  T(15, Yes, {Poor(100000)}, <<Ok, Dispose, Say, Dispose>>, 0),
  T(16, Yes, {Poor(100000)}, <<Ok, Dispose, Take(4031645, Some), Give(4031648, Some), Ok, Dispose>>, 0),
  T(16, Yes, {Poor(100000)}, <<Ok, Dispose, Say, Dispose>>, 0),
  T(17, Yes, {Poor(100000)}, <<Ok, Dispose, Take(4031646, Some), Give(4031648, Some), Ok, Dispose>>, 0),
  T(17, Yes, {Poor(100000)}, <<Ok, Dispose, Say, Dispose>>, 0),
  T(18, Yes, {Poor(100000)}, <<Ok, Dispose, Take(4031647, Some), Give(4031648, Some), Ok, Dispose>>, 0),
  T(18, Yes, {Poor(100000)}, <<Ok, Dispose, Say, Dispose>>, 0) }

\* lines 401 to 554 of 9330045_10011.js
npc_9330045_10011c == {
  T(2, Yes, {Rich(100000)}, <<Say, Dispose>>, 0),
  T(2, Yes, {Poor(100000)}, <<Ok, Dispose, Say, Dispose>>, 0),
  T(4, Yes, {Rich(100000)}, <<Take(4031633, Some), Give(4031636, Some), Ok, Dispose>>, 0),
  T(4, Yes, {Rich(100000)}, <<Say, Dispose>>, 0),
  T(4, Yes, {Poor(100000)}, <<Ok, Dispose, Take(4031633, Some), Give(4031636, Some), Ok, Dispose>>, 0),
  T(4, Yes, {Poor(100000)}, <<Ok, Dispose, Say, Dispose>>, 0),
  T(5, Yes, {Rich(100000)}, <<Take(4031634, Some), Give(4031636, Some), Ok, Dispose>>, 0),
  T(5, Yes, {Rich(100000)}, <<Say, Dispose>>, 0),
  T(5, Yes, {Poor(100000)}, <<Ok, Dispose, Take(4031634, Some), Give(4031636, Some), Ok, Dispose>>, 0),
  T(5, Yes, {Poor(100000)}, <<Ok, Dispose, Say, Dispose>>, 0),
  T(6, Yes, {Rich(100000)}, <<Take(4031635, Some), Give(4031636, Some), Ok, Dispose>>, 0),
  T(6, Yes, {Rich(100000)}, <<Say, Dispose>>, 0),
  T(6, Yes, {Poor(100000)}, <<Ok, Dispose, Take(4031635, Some), Give(4031636, Some), Ok, Dispose>>, 0),
  T(6, Yes, {Poor(100000)}, <<Ok, Dispose, Say, Dispose>>, 0),
  T(7, Yes, {Rich(100000)}, <<Take(4031630, Some), Give(4031640, Some), Ok, Dispose>>, 0),
  T(7, Yes, {Rich(100000)}, <<Say, Dispose>>, 0),
  T(7, Yes, {Poor(100000)}, <<Ok, Dispose, Take(4031630, Some), Give(4031640, Some), Ok, Dispose>>, 0),
  T(7, Yes, {Poor(100000)}, <<Ok, Dispose, Say, Dispose>>, 0),
  T(8, Yes, {Rich(100000)}, <<Take(4031637, Some), Give(4031640, Some), Ok, Dispose>>, 0),
  T(8, Yes, {Rich(100000)}, <<Say, Dispose>>, 0),
  T(8, Yes, {Poor(100000)}, <<Ok, Dispose, Take(4031637, Some), Give(4031640, Some), Ok, Dispose>>, 0),
  T(8, Yes, {Poor(100000)}, <<Ok, Dispose, Say, Dispose>>, 0),
  T(9, Yes, {Rich(100000)}, <<Take(4031638, Some), Give(4031640, Some), Ok, Dispose>>, 0),
  T(9, Yes, {Rich(100000)}, <<Say, Dispose>>, 0),
  T(9, Yes, {Poor(100000)}, <<Ok, Dispose, Take(4031638, Some), Give(4031640, Some), Ok, Dispose>>, 0),
  T(9, Yes, {Poor(100000)}, <<Ok, Dispose, Say, Dispose>>, 0),
  T(10, Yes, {Rich(100000)}, <<Take(4031639, Some), Give(4031640, Some), Ok, Dispose>>, 0),
  T(10, Yes, {Rich(100000)}, <<Say, Dispose>>, 0),
  T(10, Yes, {Poor(100000)}, <<Ok, Dispose, Take(4031639, Some), Give(4031640, Some), Ok, Dispose>>, 0),
  T(10, Yes, {Poor(100000)}, <<Ok, Dispose, Say, Dispose>>, 0),
  T(11, Yes, {Rich(100000)}, <<Take(4031628, Some), Give(4031644, Some), Ok, Dispose>>, 0),
  T(11, Yes, {Rich(100000)}, <<Say, Dispose>>, 0),
  T(11, Yes, {Poor(100000)}, <<Ok, Dispose, Take(4031628, Some), Give(4031644, Some), Ok, Dispose>>, 0),
  T(11, Yes, {Poor(100000)}, <<Ok, Dispose, Say, Dispose>>, 0),
  T(12, Yes, {Rich(100000)}, <<Take(4031641, Some), Give(4031644, Some), Ok, Dispose>>, 0),
  T(12, Yes, {Rich(100000)}, <<Say, Dispose>>, 0),
  T(12, Yes, {Poor(100000)}, <<Ok, Dispose, Take(4031641, Some), Give(4031644, Some), Ok, Dispose>>, 0),
  T(12, Yes, {Poor(100000)}, <<Ok, Dispose, Say, Dispose>>, 0),
  T(13, Yes, {Rich(100000)}, <<Take(4031642, Some), Give(4031644, Some), Ok, Dispose>>, 0),
  T(13, Yes, {Rich(100000)}, <<Say, Dispose>>, 0),
  T(13, Yes, {Poor(100000)}, <<Ok, Dispose, Take(4031642, Some), Give(4031644, Some), Ok, Dispose>>, 0),
  T(13, Yes, {Poor(100000)}, <<Ok, Dispose, Say, Dispose>>, 0),
  T(14, Yes, {Rich(100000)}, <<Take(4031643, Some), Give(4031644, Some), Ok, Dispose>>, 0),
  T(14, Yes, {Rich(100000)}, <<Say, Dispose>>, 0),
  T(14, Yes, {Poor(100000)}, <<Ok, Dispose, Take(4031643, Some), Give(4031644, Some), Ok, Dispose>>, 0),
  T(14, Yes, {Poor(100000)}, <<Ok, Dispose, Say, Dispose>>, 0),
  T(15, Yes, {Rich(100000)}, <<Take(4031631, Some), Give(4031648, Some), Ok, Dispose>>, 0),
  T(15, Yes, {Rich(100000)}, <<Say, Dispose>>, 0),
  T(15, Yes, {Poor(100000)}, <<Ok, Dispose, Take(4031631, Some), Give(4031648, Some), Ok, Dispose>>, 0),
  T(15, Yes, {Poor(100000)}, <<Ok, Dispose, Say, Dispose>>, 0),
  T(16, Yes, {Rich(100000)}, <<Take(4031645, Some), Give(4031648, Some), Ok, Dispose>>, 0),
  T(16, Yes, {Rich(100000)}, <<Say, Dispose>>, 0),
  T(16, Yes, {Poor(100000)}, <<Ok, Dispose, Take(4031645, Some), Give(4031648, Some), Ok, Dispose>>, 0),
  T(16, Yes, {Poor(100000)}, <<Ok, Dispose, Say, Dispose>>, 0),
  T(17, Yes, {Rich(100000)}, <<Take(4031646, Some), Give(4031648, Some), Ok, Dispose>>, 0),
  T(17, Yes, {Poor(100000)}, <<Ok, Dispose, Take(4031646, Some), Give(4031648, Some), Ok, Dispose>>, 0) }

\* lines 555 to 702 of 9330045_10011.js
npc_9330045_10011d == {
  T(17, Yes, {Rich(100000)}, <<Say, Dispose>>, 0),
  T(17, Yes, {Poor(100000)}, <<Ok, Dispose, Say, Dispose>>, 0),
  T(18, Yes, {Rich(100000)}, <<Take(4031647, Some), Give(4031648, Some), Ok, Dispose>>, 0),
  T(18, Yes, {Rich(100000)}, <<Say, Dispose>>, 0),
  T(18, Yes, {Poor(100000)}, <<Ok, Dispose, Take(4031647, Some), Give(4031648, Some), Ok, Dispose>>, 0),
  T(18, Yes, {Poor(100000)}, <<Ok, Dispose, Say, Dispose>>, 0) }

\* lines 9 to 228 of 9330045_10012.js
npc_9330045_10012a == {
  T(0, Start, {Has(4200007, 1)}, <<Ok, Dispose, Menu>>, 0),
  T(0, Start, {Lacks(4200007, 1)}, <<Menu>>, 1),
  T(1, Yes, {Lacks(4031636, 1)}, <<Say>>, 3),
  T(1, Yes, {Has(4031636, 1)}, <<Ok, Dispose, Number>>, 0),
  T(1, Yes, {Lacks(4031636, 1)}, <<Ok, Dispose, Say>>, 0),
  T(1, Yes, {Lacks(4031640, 1)}, <<Say>>, 3),
  T(1, Yes, {Has(4031640, 1)}, <<Ok, Dispose, Number>>, 0),
  T(1, Yes, {Lacks(4031640, 1)}, <<Ok, Dispose, Say>>, 0),
  T(1, Yes, {Lacks(4031644, 1)}, <<Say>>, 3),
  T(1, Yes, {Has(4031644, 1)}, <<Ok, Dispose, Number>>, 0),
  T(1, Yes, {Lacks(4031644, 1)}, <<Ok, Dispose, Say>>, 0),
  T(1, Yes, {Lacks(4031648, 1)}, <<Say>>, 3),
  T(1, Yes, {Has(4031648, 1)}, <<Ok, Dispose, Number>>, 0),
  T(1, Yes, {Lacks(4031648, 1)}, <<Ok, Dispose, Say>>, 0),
  T(2, No, {Has(4200007, 1)}, <<Ok, Dispose, Menu>>, 0),
  T(2, No, {Lacks(4200007, 1)}, <<Menu>>, 1),
  T(3, Yes, {Has(4200007, 1)}, <<Ok, Dispose, Menu>>, 0),
  T(3, Yes, {Lacks(4200007, 1)}, <<Menu>>, 1),
  T(4, No, {Has(4200007, 1)}, <<Ok, Dispose, Menu>>, 0),
  T(4, No, {Lacks(4200007, 1)}, <<Menu>>, 1),
  T(5, No, {Has(4200007, 1)}, <<Ok, Dispose, Menu>>, 0),
  T(5, No, {Lacks(4200007, 1)}, <<Menu>>, 1),
  T(6, No, {Has(4200007, 1)}, <<Ok, Dispose, Menu>>, 0),
  T(6, No, {Lacks(4200007, 1)}, <<Menu>>, 1) }

\* lines 229 to 594 of 9330045_10012.js
npc_9330045_10012b == {
  T(1, Yes, {Has(4031636, 1)}, <<Number>>, 2),
  T(1, Yes, {Lacks(4031636, 1)}, <<Say>>, 3),
  T(1, Yes, {Has(4031636, 1)}, <<Ok, Dispose, Number>>, 0),
  T(1, Yes, {Lacks(4031636, 1)}, <<Ok, Dispose, Say>>, 0),
  T(1, Yes, {Has(4031640, 1)}, <<Number>>, 4),
  T(1, Yes, {Lacks(4031640, 1)}, <<Say>>, 3),
  T(1, Yes, {Has(4031640, 1)}, <<Ok, Dispose, Number>>, 0),
  T(1, Yes, {Lacks(4031640, 1)}, <<Ok, Dispose, Say>>, 0),
  T(1, Yes, {Has(4031644, 1)}, <<Number>>, 5),
  T(1, Yes, {Lacks(4031644, 1)}, <<Say>>, 3),
  T(1, Yes, {Has(4031644, 1)}, <<Ok, Dispose, Number>>, 0),
  T(1, Yes, {Lacks(4031644, 1)}, <<Ok, Dispose, Say>>, 0),
  T(1, Yes, {Has(4031648, 1)}, <<Number>>, 6),
  T(1, Yes, {Lacks(4031648, 1)}, <<Say>>, 3),
  T(1, Yes, {Has(4031648, 1)}, <<Ok, Dispose, Number>>, 0),
  T(1, Yes, {Lacks(4031648, 1)}, <<Ok, Dispose, Say>>, 0),
  T(2, Yes, {Rich(100000)}, <<Take(4031636, Some), Give(4310150, Some), Also("gainExp"), Ok, Dispose>>, 0),
  T(2, Yes, {Poor(100000)}, <<Ok, Dispose, Take(4031636, Some), Give(4310150, Some), Also("gainExp"), Ok,
      Dispose>>, 0),
  T(2, Yes, {Poor(100000)}, <<Ok, Dispose, Say, Dispose>>, 0),
  T(4, Yes, {Poor(100000)}, <<Ok, Dispose, Take(4031640, Some), Give(4000463, Some), Also("gainExp"), Ok,
      Dispose>>, 0),
  T(4, Yes, {Poor(100000)}, <<Ok, Dispose, Say, Dispose>>, 0),
  T(5, Yes, {Poor(100000)}, <<Ok, Dispose, Take(4031644, Some), Give(4000038, Some), Also("gainExp"), Ok,
      Dispose>>, 0),
  T(5, Yes, {Poor(100000)}, <<Ok, Dispose, Say, Dispose>>, 0),
  T(6, Yes, {Poor(100000)}, <<Ok, Dispose, Take(4031648, Some), Give(4000038, Some), Also("gainExp"), Ok,
      Dispose>>, 0),
  T(6, Yes, {Poor(100000)}, <<Ok, Dispose, Say, Dispose>>, 0) }

\* lines 595 to 700 of 9330045_10012.js
npc_9330045_10012c == {
  T(2, Yes, {Rich(100000)}, <<Say, Dispose>>, 0),
  T(2, Yes, {Poor(100000)}, <<Ok, Dispose, Say, Dispose>>, 0),
  T(4, Yes, {Rich(100000)}, <<Take(4031640, Some), Give(4000463, Some), Also("gainExp"), Ok, Dispose>>, 0),
  T(4, Yes, {Rich(100000)}, <<Say, Dispose>>, 0),
  T(4, Yes, {Poor(100000)}, <<Ok, Dispose, Take(4031640, Some), Give(4000463, Some), Also("gainExp"), Ok,
      Dispose>>, 0),
  T(4, Yes, {Poor(100000)}, <<Ok, Dispose, Say, Dispose>>, 0),
  T(5, Yes, {Rich(100000)}, <<Take(4031644, Some), Give(4000038, Some), Also("gainExp"), Ok, Dispose>>, 0),
  T(5, Yes, {Rich(100000)}, <<Say, Dispose>>, 0),
  T(5, Yes, {Poor(100000)}, <<Ok, Dispose, Take(4031644, Some), Give(4000038, Some), Also("gainExp"), Ok,
      Dispose>>, 0),
  T(5, Yes, {Poor(100000)}, <<Ok, Dispose, Say, Dispose>>, 0),
  T(6, Yes, {Rich(100000)}, <<Take(4031648, Some), Give(4000038, Some), Also("gainExp"), Ok, Dispose>>, 0),
  T(6, Yes, {Rich(100000)}, <<Say, Dispose>>, 0),
  T(6, Yes, {Poor(100000)}, <<Ok, Dispose, Take(4031648, Some), Give(4000038, Some), Also("gainExp"), Ok,
      Dispose>>, 0),
  T(6, Yes, {Poor(100000)}, <<Ok, Dispose, Say, Dispose>>, 0) }

npc_9330074 == {
  T(0, Start, {}, <<Window(4)>>, 0) }

npc_9330079_101 == {
  T(0, Start, {}, <<Ok, Dispose>>, 0),
  T(0, Start, {}, <<Menu>>, 1),
  T(1, Yes, {}, <<Ok, Dispose>>, 0),
  T(1, Yes, {}, <<Also("warp"), Dispose>>, 0) }

\* lines 1 to 169 of 9330079_103.js
npc_9330079_103a == {
  T(0, Start, {}, <<Menu>>, 1),
  T(1, Yes, {}, <<Ok, Dispose>>, 0),
  T(1, Yes, {}, <<Text>>, 2),
  T(1, Yes, {}, <<Menu>>, 3),
  T(2, Yes, {}, <<Ok, Dispose>>, 0),
  T(2, Yes, {}, <<Also("setBossLog"), Ok, Dispose>>, 0),
  T(2, Yes, {}, <<Also("setBossLog"), Dispose>>, 0),
  T(2, Yes, {}, <<Also("setBossLog"), Give(4001126, Some), Ok, Dispose>>, 0),
  T(2, Yes, {}, <<Also("setBossLog"), Give(4000313, Some), Ok, Dispose>>, 0),
  T(2, Yes, {}, <<Also("setBossLog"), Also("gainNX"), Ok, Dispose>>, 0),
  T(2, Yes, {}, <<Also("setBossLog"), Also("gainDY"), Ok, Dispose>>, 0),
  T(2, Yes, {}, <<Also("setBossLog"), Earn(Some), Ok, Dispose>>, 0),
  T(3, Yes, {}, <<Ok, Dispose>>, 0),
  T(3, Yes, {}, <<Also("gainNX"), Also("setBossLog"), Ok, Dispose>>, 0) }

\* lines 170 to 464 of 9330079_103.js
npc_9330079_103b == {
  T(3, Yes, {}, <<Also("gainNX"), Also("setBossLog"), Ok, Dispose>>, 0) }

npc_9330079_200 == {
  T(0, Start, {}, <<Menu>>, 1),
  T(1, Yes, {}, <<Dispose, OpenNpc>>, 0) }

\* lines 5 to 85 of 9330108_1.js
npc_9330108_1a == {
  T(0, Start, {}, <<Menu>>, 1),
  T(0, Start, {}, <<Ok, Dispose>>, 0) }

\* lines 86 to 230 of 9330108_1.js
npc_9330108_1b == {
  T(0, Start, {}, <<Menu>>, 1),
  T(0, Start, {}, <<Ok, Dispose>>, 0),
  T(1, Yes, {Has(5340001, 1)}, <<Ok>>, 2),
  T(1, Yes, {Lacks(5340001, 1)}, <<Also("gainNX"), Give(5340001, 1), Ok, Dispose>>, 0),
  T(1, Yes, {}, <<Also("gainNX"), Give(2300001, 100), Ok, Dispose>>, 0),
  T(1, Yes, {}, <<Ok, Dispose>>, 0),
  T(1, Yes, {}, <<Dispose, OpenNpc>>, 0),
  T(1, Yes, {Rich(2000000), Room(2, 1)}, <<Pay(2000000), Give(2300000, 100), Ok, Dispose>>, 0),
  T(1, Yes, {}, <<Also("gainNX"), Give(2300001, 1000), Ok, Dispose>>, 0),
  T(1, Yes, {Rich(20000000), Room(2, 1)}, <<Pay(20000000), Give(2300000, 1000), Ok, Dispose>>, 0),
  T(2, Yes, {}, <<>>, 0) }

npc_9330109 == {
  T(0, Start, {}, <<Menu>>, 1),
  T(0, Start, {}, <<Ok, Dispose>>, 0),
  T(1, Yes, {}, <<Also("warp"), Dispose>>, 0),
  T(1, Yes, {Has(3011000, 1)}, <<Ok>>, 2),
  T(1, Yes, {Lacks(3011000, 1), Rich(3000000), Room(3, 1)}, <<Pay(3000000), Give(3011000, 1), Ok, Dispose>>, 0),
  T(1, Yes, {Has(5340001, 1)}, <<Ok>>, 2),
  T(1, Yes, {Lacks(5340001, 1)}, <<Also("gainNX"), Give(5340001, 1), Ok, Dispose>>, 0),
  T(1, Yes, {}, <<Also("gainNX"), Give(2300001, 100), Ok, Dispose>>, 0),
  T(1, Yes, {}, <<Ok, Dispose>>, 0),
  T(1, Yes, {}, <<Dispose, OpenNpc>>, 0),
  T(1, Yes, {Rich(2000000), Room(2, 1)}, <<Pay(2000000), Give(2300000, 100), Ok, Dispose>>, 0),
  T(1, Yes, {Rich(10000000), Room(2, 1)}, <<Pay(10000000), Give(2300000, 500), Ok, Dispose>>, 0),
  T(1, Yes, {}, <<Also("gainNX"), Give(2300001, 500), Ok, Dispose>>, 0),
  T(2, Yes, {}, <<>>, 0) }

\* lines 5 to 156 of 9330110.js
npc_9330110a == {
  T(0, Start, {}, <<Menu>>, 1),
  T(1, Yes, {Has(4001188, 10), Room(0, 1)}, <<Take(4001188, 10), Give(5072000, 1), Ok, Dispose>>, 0),
  T(1, Yes, {Full(0, 1), Has(4001188, 10)}, <<Ok, Dispose>>, 0),
  T(1, Yes, {Lacks(4001188, 10)}, <<Ok, Dispose>>, 0),
  T(1, Yes, {Has(4001188, 20), Room(0, 1)}, <<Take(4001188, 20), Give(5230000, 10), Ok, Dispose>>, 0),
  T(1, Yes, {Full(0, 1), Has(4001188, 20)}, <<Ok, Dispose>>, 0),
  T(1, Yes, {Lacks(4001188, 20)}, <<Ok, Dispose>>, 0),
  T(1, Yes, {Has(4001188, 40), Room(0, 1)}, <<Take(4001188, 40), Give(5561000, 1), Ok, Dispose>>, 0),
  T(1, Yes, {Full(0, 1), Has(4001188, 40)}, <<Ok, Dispose>>, 0),
  T(1, Yes, {Lacks(4001188, 40)}, <<Ok, Dispose>>, 0),
  T(1, Yes, {Has(4001188, 40), Room(0, 1)}, <<Take(4001188, 40), Give(5130000, 10), Ok, Dispose>>, 0),
  T(1, Yes, {Has(4001188, 40), Room(0, 1)}, <<Take(4001188, 40), Give(5210001, 1), Ok, Dispose>>, 0),
  T(1, Yes, {Has(4001188, 40), Room(0, 1)}, <<Take(4001188, 40), Give(5210002, 1), Ok, Dispose>>, 0),
  T(1, Yes, {Full(0, 1), Has(4001188, 60)}, <<Ok, Dispose>>, 0),
  T(1, Yes, {Lacks(4001188, 60)}, <<Ok, Dispose>>, 0),
  T(1, Yes, {Full(0, 1), Has(4001188, 120)}, <<Ok, Dispose>>, 0),
  T(1, Yes, {Lacks(4001188, 120)}, <<Ok, Dispose>>, 0),
  T(1, Yes, {Full(0, 1), Has(4001188, 290)}, <<Ok, Dispose>>, 0),
  T(1, Yes, {Lacks(4001188, 290)}, <<Ok, Dispose>>, 0),
  T(1, Yes, {Full(0, 1), Has(4001188, 320)}, <<Ok, Dispose>>, 0),
  T(1, Yes, {Lacks(4001188, 320)}, <<Ok, Dispose>>, 0),
  T(1, Yes, {Full(0, 1), Has(4001188, 500)}, <<Ok, Dispose>>, 0),
  T(1, Yes, {Lacks(4001188, 500)}, <<Ok, Dispose>>, 0) }

\* lines 157 to 354 of 9330110.js
npc_9330110b == {
  T(1, Yes, {Full(0, 1), Has(4001188, 10)}, <<Ok, Dispose>>, 0),
  T(1, Yes, {Lacks(4001188, 10)}, <<Ok, Dispose>>, 0),
  T(1, Yes, {Full(0, 1), Has(4001188, 20)}, <<Ok, Dispose>>, 0),
  T(1, Yes, {Lacks(4001188, 20)}, <<Ok, Dispose>>, 0),
  T(1, Yes, {Full(0, 1), Has(4001188, 40)}, <<Ok, Dispose>>, 0),
  T(1, Yes, {Lacks(4001188, 40)}, <<Ok, Dispose>>, 0),
  T(1, Yes, {Has(4001188, 40), Room(0, 1)}, <<Take(4001188, 40), Give(5210003, 1), Ok, Dispose>>, 0),
  T(1, Yes, {Has(4001188, 40), Room(0, 1)}, <<Take(4001188, 40), Give(5210004, 1), Ok, Dispose>>, 0),
  T(1, Yes, {Has(4001188, 40), Room(0, 1)}, <<Take(4001188, 40), Give(5360015, 1), Ok, Dispose>>, 0),
  T(1, Yes, {Has(4001188, 60), Room(0, 1)}, <<Take(4001188, 60), Give(5150042, 1), Ok, Dispose>>, 0),
  T(1, Yes, {Full(0, 1), Has(4001188, 60)}, <<Ok, Dispose>>, 0),
  T(1, Yes, {Lacks(4001188, 60)}, <<Ok, Dispose>>, 0),
  T(1, Yes, {Has(4001188, 120), Room(0, 1)}, <<Take(4001188, 120), Give(5210000, 1), Ok, Dispose>>, 0),
  T(1, Yes, {Full(0, 1), Has(4001188, 120)}, <<Ok, Dispose>>, 0),
  T(1, Yes, {Lacks(4001188, 120)}, <<Ok, Dispose>>, 0),
  T(1, Yes, {Has(4001188, 290), Room(0, 1)}, <<Take(4001188, 290), Give(5050000, 20), Ok, Dispose>>, 0),
  T(1, Yes, {Full(0, 1), Has(4001188, 290)}, <<Ok, Dispose>>, 0),
  T(1, Yes, {Lacks(4001188, 290)}, <<Ok, Dispose>>, 0),
  T(1, Yes, {Has(4001188, 320), Room(0, 1)}, <<Take(4001188, 320), Give(5520000, 1), Ok, Dispose>>, 0),
  T(1, Yes, {Full(0, 1), Has(4001188, 320)}, <<Ok, Dispose>>, 0),
  T(1, Yes, {Lacks(4001188, 320)}, <<Ok, Dispose>>, 0),
  T(1, Yes, {Has(4001188, 500), Room(0, 1)}, <<Take(4001188, 500), Give(3010142, 1), Ok, Dispose>>, 0),
  T(1, Yes, {Full(0, 1), Has(4001188, 500)}, <<Ok, Dispose>>, 0),
  T(1, Yes, {Lacks(4001188, 500)}, <<Ok, Dispose>>, 0) }

\* lines 3 to 155 of 9330111.js
npc_9330111a == {
  T(0, Start, {}, <<Menu>>, 1),
  T(1, Yes, {Has(4001137, 1), Room(0, 1)}, <<Take(4001137, 1), Give(2041101, 1), Ok, Dispose>>, 0),
  T(1, Yes, {Full(0, 1), Has(4001137, 1)}, <<Ok, Dispose>>, 0),
  T(1, Yes, {Lacks(4001137, 1)}, <<Ok, Dispose>>, 0),
  T(1, Yes, {Has(4001137, 1), Room(0, 1)}, <<Take(4001137, 1), Give(2041104, 1), Ok, Dispose>>, 0),
  T(1, Yes, {Has(4001137, 1), Room(0, 1)}, <<Take(4001137, 1), Give(2041107, 1), Ok, Dispose>>, 0),
  T(1, Yes, {Has(4001137, 1), Room(0, 1)}, <<Take(4001137, 1), Give(2041110, 1), Ok, Dispose>>, 0),
  T(1, Yes, {Full(0, 1), Has(4001137, 5)}, <<Ok, Dispose>>, 0),
  T(1, Yes, {Lacks(4001137, 5)}, <<Ok, Dispose>>, 0),
  T(1, Yes, {Full(0, 1), Has(4001137, 8)}, <<Ok, Dispose>>, 0),
  T(1, Yes, {Lacks(4001137, 8)}, <<Ok, Dispose>>, 0),
  T(1, Yes, {Full(0, 1), Has(4001137, 30)}, <<Ok, Dispose>>, 0),
  T(1, Yes, {Lacks(4001137, 30)}, <<Ok, Dispose>>, 0),
  T(1, Yes, {Full(0, 1), Has(4001137, 40)}, <<Ok, Dispose>>, 0),
  T(1, Yes, {Lacks(4001137, 40)}, <<Ok, Dispose>>, 0) }

\* lines 156 to 321 of 9330111.js
npc_9330111b == {
  T(1, Yes, {Full(0, 1), Has(4001137, 1)}, <<Ok, Dispose>>, 0),
  T(1, Yes, {Lacks(4001137, 1)}, <<Ok, Dispose>>, 0),
  T(1, Yes, {Has(4001137, 5), Room(0, 1)}, <<Take(4001137, 5), Give(1052187, 1), Ok, Dispose>>, 0),
  T(1, Yes, {Full(0, 1), Has(4001137, 5)}, <<Ok, Dispose>>, 0),
  T(1, Yes, {Lacks(4001137, 5)}, <<Ok, Dispose>>, 0),
  T(1, Yes, {Has(4001137, 5), Room(0, 1)}, <<Take(4001137, 5), Give(1052188, 1), Ok, Dispose>>, 0),
  T(1, Yes, {Has(4001137, 8), Room(0, 1)}, <<Take(4001137, 8), Give(1052189, 1), Ok, Dispose>>, 0),
  T(1, Yes, {Full(0, 1), Has(4001137, 8)}, <<Ok, Dispose>>, 0),
  T(1, Yes, {Lacks(4001137, 8)}, <<Ok, Dispose>>, 0),
  T(1, Yes, {Has(4001137, 5), Room(0, 1)}, <<Take(4001137, 5), Give(1052190, 1), Ok, Dispose>>, 0),
  T(1, Yes, {Has(4001137, 5), Room(0, 1)}, <<Take(4001137, 5), Give(1302130, 1), Ok, Dispose>>, 0),
  T(1, Yes, {Has(4001137, 5), Room(0, 1)}, <<Take(4001137, 5), Give(1332098, 1), Ok, Dispose>>, 0),
  T(1, Yes, {Has(4001137, 5), Room(0, 1)}, <<Take(4001137, 5), Give(1382079, 1), Ok, Dispose>>, 0),
  T(1, Yes, {Has(4001137, 5), Room(0, 1)}, <<Take(4001137, 5), Give(1402071, 1), Ok, Dispose>>, 0),
  T(1, Yes, {Full(0, 1), Has(4001137, 30)}, <<Ok, Dispose>>, 0),
  T(1, Yes, {Lacks(4001137, 30)}, <<Ok, Dispose>>, 0),
  T(1, Yes, {Full(0, 1), Has(4001137, 40)}, <<Ok, Dispose>>, 0),
  T(1, Yes, {Lacks(4001137, 40)}, <<Ok, Dispose>>, 0) }

\* lines 322 to 480 of 9330111.js
npc_9330111c == {
  T(1, Yes, {Full(0, 1), Has(4001137, 1)}, <<Ok, Dispose>>, 0),
  T(1, Yes, {Lacks(4001137, 1)}, <<Ok, Dispose>>, 0),
  T(1, Yes, {Full(0, 1), Has(4001137, 5)}, <<Ok, Dispose>>, 0),
  T(1, Yes, {Lacks(4001137, 5)}, <<Ok, Dispose>>, 0),
  T(1, Yes, {Full(0, 1), Has(4001137, 8)}, <<Ok, Dispose>>, 0),
  T(1, Yes, {Lacks(4001137, 8)}, <<Ok, Dispose>>, 0),
  T(1, Yes, {Has(4001137, 5), Room(0, 1)}, <<Take(4001137, 5), Give(1432060, 1), Ok, Dispose>>, 0),
  T(1, Yes, {Has(4001137, 5), Room(0, 1)}, <<Take(4001137, 5), Give(1442085, 1), Ok, Dispose>>, 0),
  T(1, Yes, {Has(4001137, 5), Room(0, 1)}, <<Take(4001137, 5), Give(1452082, 1), Ok, Dispose>>, 0),
  T(1, Yes, {Has(4001137, 5), Room(0, 1)}, <<Take(4001137, 5), Give(1462074, 1), Ok, Dispose>>, 0),
  T(1, Yes, {Has(4001137, 5), Room(0, 1)}, <<Take(4001137, 5), Give(1472099, 1), Ok, Dispose>>, 0),
  T(1, Yes, {Has(4001137, 30), Room(0, 1)}, <<Take(4001137, 30), Give(2043005, 1), Ok, Dispose>>, 0),
  T(1, Yes, {Full(0, 1), Has(4001137, 30)}, <<Ok, Dispose>>, 0),
  T(1, Yes, {Lacks(4001137, 30)}, <<Ok, Dispose>>, 0),
  T(1, Yes, {Has(4001137, 30), Room(0, 1)}, <<Take(4001137, 30), Give(2043305, 1), Ok, Dispose>>, 0),
  T(1, Yes, {Full(0, 1), Has(4001137, 40)}, <<Ok, Dispose>>, 0),
  T(1, Yes, {Lacks(4001137, 40)}, <<Ok, Dispose>>, 0) }

\* lines 481 to 634 of 9330111.js
npc_9330111d == {
  T(1, Yes, {Full(0, 1), Has(4001137, 1)}, <<Ok, Dispose>>, 0),
  T(1, Yes, {Lacks(4001137, 1)}, <<Ok, Dispose>>, 0),
  T(1, Yes, {Full(0, 1), Has(4001137, 5)}, <<Ok, Dispose>>, 0),
  T(1, Yes, {Lacks(4001137, 5)}, <<Ok, Dispose>>, 0),
  T(1, Yes, {Full(0, 1), Has(4001137, 8)}, <<Ok, Dispose>>, 0),
  T(1, Yes, {Lacks(4001137, 8)}, <<Ok, Dispose>>, 0),
  T(1, Yes, {Full(0, 1), Has(4001137, 30)}, <<Ok, Dispose>>, 0),
  T(1, Yes, {Lacks(4001137, 30)}, <<Ok, Dispose>>, 0),
  T(1, Yes, {Has(4001137, 30), Room(0, 1)}, <<Take(4001137, 30), Give(2044405, 1), Ok, Dispose>>, 0),
  T(1, Yes, {Has(4001137, 30), Room(0, 1)}, <<Take(4001137, 30), Give(2044505, 1), Ok, Dispose>>, 0),
  T(1, Yes, {Has(4001137, 30), Room(0, 1)}, <<Take(4001137, 30), Give(2044705, 1), Ok, Dispose>>, 0),
  T(1, Yes, {Has(4001137, 30), Room(0, 1)}, <<Take(4001137, 30), Give(2044804, 1), Ok, Dispose>>, 0),
  T(1, Yes, {Has(4001137, 30), Room(0, 1)}, <<Take(4001137, 30), Give(2044904, 1), Ok, Dispose>>, 0),
  T(1, Yes, {Has(4001137, 30), Room(0, 1)}, <<Take(4001137, 30), Give(2044305, 1), Ok, Dispose>>, 0),
  T(1, Yes, {Has(4001137, 30), Room(0, 1)}, <<Take(4001137, 30), Give(2044605, 1), Ok, Dispose>>, 0),
  T(1, Yes, {Full(0, 1), Has(4001137, 40)}, <<Ok, Dispose>>, 0),
  T(1, Yes, {Lacks(4001137, 40)}, <<Ok, Dispose>>, 0) }

\* lines 635 to 783 of 9330111.js
npc_9330111e == {
  T(1, Yes, {Full(0, 1), Has(4001137, 1)}, <<Ok, Dispose>>, 0),
  T(1, Yes, {Lacks(4001137, 1)}, <<Ok, Dispose>>, 0),
  T(1, Yes, {Full(0, 1), Has(4001137, 5)}, <<Ok, Dispose>>, 0),
  T(1, Yes, {Lacks(4001137, 5)}, <<Ok, Dispose>>, 0),
  T(1, Yes, {Full(0, 1), Has(4001137, 8)}, <<Ok, Dispose>>, 0),
  T(1, Yes, {Lacks(4001137, 8)}, <<Ok, Dispose>>, 0),
  T(1, Yes, {Full(0, 1), Has(4001137, 30)}, <<Ok, Dispose>>, 0),
  T(1, Yes, {Lacks(4001137, 30)}, <<Ok, Dispose>>, 0),
  T(1, Yes, {Has(4001137, 30), Room(0, 1)}, <<Take(4001137, 30), Give(2043705, 1), Ok, Dispose>>, 0),
  T(1, Yes, {Has(4001137, 30), Room(0, 1)}, <<Take(4001137, 30), Give(2043805, 1), Ok, Dispose>>, 0),
  T(1, Yes, {Has(4001137, 40), Room(0, 1)}, <<Take(4001137, 40), Give(2040509, 1), Ok, Dispose>>, 0),
  T(1, Yes, {Full(0, 1), Has(4001137, 40)}, <<Ok, Dispose>>, 0),
  T(1, Yes, {Lacks(4001137, 40)}, <<Ok, Dispose>>, 0),
  T(1, Yes, {Has(4001137, 40), Room(0, 1)}, <<Take(4001137, 40), Give(2040533, 1), Ok, Dispose>>, 0),
  T(1, Yes, {Has(4001137, 40), Room(0, 1)}, <<Take(4001137, 40), Give(2040519, 1), Ok, Dispose>>, 0),
  T(1, Yes, {Has(4001137, 40), Room(0, 1)}, <<Take(4001137, 40), Give(2040521, 1), Ok, Dispose>>, 0) }

npc_9330117 == {
  T(0, Start, {Has(5220000, 1)}, <<YesNo>>, 1),
  T(0, Start, {Lacks(5220000, 1)}, <<Ok, SafeDispose>>, 0),
  T(0, Start, {}, <<Ok, Dispose>>, 0),
  T(1, Yes, {Has(5220000, 1), Room(0, 1)}, <<Give(Some, 1), Take(5220000, 1), Ok, SafeDispose>>, 0),
  T(1, Yes, {Full(0, 1), Has(5220000, 1)}, <<Ok, SafeDispose>>, 0),
  T(1, Yes, {Lacks(5220000, 1)}, <<Ok, SafeDispose>>, 0),
  T(1, Yes, {Has(5220000, 1), Room(0, 1)}, <<Take(5220000, 1), Ok, SafeDispose>>, 0),
  T(1, No, {}, <<Ok, Dispose>>, 0) }

npc_9900001 == {
  T(0, Start, {}, <<Say>>, 1),
  T(1, Yes, {}, <<Say>>, 2),
  T(1, Yes, {}, <<Say, Dispose>>, 0),
  T(2, Yes, {}, <<YesNo>>, 3),
  T(2, Yes, {}, <<Ok, Dispose>>, 0),
  T(2, Yes, {}, <<Ok>>, 4),
  T(3, Yes, {}, <<Also("changeJob"), Also("teachSkill"), Fail>>, 0),
  T(3, Both, {}, <<Dispose>>, 0),
  T(3, Yes, {Rich(5000000)}, <<Also("changeJob"), Pay(5000000), Give(1442078, 1), Also("teachSkill"), Fail>>,
      0),
  T(3, Yes, {Poor(5000000)}, <<Ok, Dispose>>, 0),
  T(3, Yes, {Rich(10000000)}, <<Pay(10000000), Also("gainAp"), Also("changeJob"), Also("teachSkill"), Ok,
      Dispose>>, 0),
  T(3, Yes, {Poor(10000000)}, <<Ok, Dispose>>, 0),
  T(3, Yes, {Rich(20000000)}, <<Pay(20000000), Also("gainAp"), Also("teachSkill"), Also("changeJob"), Ok,
      Dispose>>, 0),
  T(3, Yes, {Poor(20000000)}, <<Ok, Dispose>>, 0),
  T(4, Yes, {}, <<Also("changeJob"), Also("teachSkill"), Fail>>, 0),
  T(4, Yes, {}, <<Dispose>>, 0),
  T(4, Yes, {Rich(5000000)}, <<Also("changeJob"), Pay(5000000), Give(1442078, 1), Also("teachSkill"), Fail>>,
      0),
  T(4, Yes, {Poor(5000000)}, <<Ok, Dispose>>, 0),
  T(4, Yes, {Rich(10000000)}, <<Pay(10000000), Also("gainAp"), Also("changeJob"), Also("teachSkill"), Ok,
      Dispose>>, 0),
  T(4, Yes, {Poor(10000000)}, <<Ok, Dispose>>, 0),
  T(4, Yes, {Rich(20000000)}, <<Pay(20000000), Also("gainAp"), Also("teachSkill"), Also("changeJob"), Ok,
      Dispose>>, 0),
  T(4, Yes, {Poor(20000000)}, <<Ok, Dispose>>, 0) }

npc_9900004_4 == {
  T(0, Start, {}, <<Ok, Dispose>>, 0),
  T(0, Start, {}, <<Menu>>, 1),
  T(1, Yes, {}, <<Ok, Dispose>>, 0),
  T(1, Yes, {}, <<Dispose, OpenNpc>>, 0) }

npc_9900004_9 == {
  T(0, Start, {}, <<Ok, Dispose>>, 0),
  T(0, Start, {}, <<Menu>>, 1),
  T(1, Yes, {}, <<Ok, Dispose>>, 0),
  T(1, Yes, {}, <<Dispose, OpenNpc>>, 0) }

\* lines 175 to 310 of 9900004_72.js
npc_9900004_72a == {
  T(0, Start, {}, <<Also("saveToDB"), Menu>>, 1),
  T(0, Start, {}, <<Also("saveToDB"), Menu>>, 2),
  T(0, Start, {}, <<Also("saveToDB"), Menu>>, 3),
  T(0, Start, {}, <<Also("saveToDB"), Menu>>, 4),
  T(1, Yes, {}, <<Also("saveToDB"), Fail>>, 0),
  T(1, Yes, {}, <<Also("saveToDB"), Dispose, OpenNpc>>, 0),
  T(2, Yes, {}, <<Also("saveToDB"), Dispose, OpenNpc>>, 0),
  T(3, Yes, {}, <<Also("saveToDB"), Dispose>>, 0),
  T(3, Yes, {}, <<Also("saveToDB"), Fail>>, 0),
  T(4, Yes, {}, <<Also("saveToDB"), Dispose>>, 0) }

\* lines 311 to 708 of 9900004_72.js
npc_9900004_72b == {
  T(1, Yes, {}, <<Also("saveToDB"), Dispose, OpenNpc>>, 0),
  T(2, Yes, {}, <<Also("saveToDB"), Dispose, OpenNpc>>, 0),
  T(3, Yes, {}, <<Also("saveToDB"), Dispose>>, 0),
  T(4, Yes, {}, <<Also("saveToDB"), Dispose>>, 0) }

npc_9900004_73 == {
  T(0, Start, {}, <<Fail>>, 0) }

npc_9900004_521 == {
  T(0, Start, {}, <<Fail>>, 0) }

npc_9900004_554 == {
  T(0, Start, {}, <<Menu>>, 1),
  T(1, Yes, {Has(4000010, 300), Has(4000017, 50), Has(4000463, 10), Has(4001126, 500), Has(4002000, 5),
      Room(1, 1)}, <<Take(4000017, 50), Take(4002000, 5), Take(4000010, 300), Take(4000463, 10),
      Take(4001126, 500), Dispose, OpenNpc>>, 0),
  T(1, Yes, {Has(4000010, 300), Has(4000017, 50), Has(4000463, 10), Has(4002000, 5), Lacks(4001126, 500),
      Room(1, 1)}, <<Ok, Dispose>>, 0),
  T(1, Yes, {Has(4000010, 300), Has(4000017, 50), Has(4002000, 5), Lacks(4000463, 10), Room(1, 1)}, <<Ok,
      Dispose>>, 0),
  T(1, Yes, {Has(4000017, 50), Has(4002000, 5), Lacks(4000010, 300), Room(1, 1)}, <<Ok, Dispose>>, 0),
  T(1, Yes, {Has(4000017, 50), Lacks(4002000, 5), Room(1, 1)}, <<Ok, Dispose>>, 0),
  T(1, Yes, {Lacks(4000017, 50), Room(1, 1)}, <<Ok, Dispose>>, 0),
  T(1, Yes, {Full(1, 1)}, <<Ok, Dispose>>, 0) }

npc_9900004_777 == {
  T(0, Start, {}, <<Menu, Menu, Menu, Menu, Menu, Menu, Menu, Menu, Menu, Menu>>, 1),
  T(1, Yes, {}, <<Ok, Dispose>>, 0),
  T(1, Yes, {Has(1142609, 1), Room(1, 1), Room(4, 4)}, <<Earn(100000), Give(4000463, 3), Give(4032391, 1),
      Give(4000313, 10), Give(4001126, 100), Give(4000038, 2), Also("setBossLog"), Dispose>>, 0) }

npc_9900004_888 == {
  T(0, Start, {}, <<Menu, Menu, Menu, Menu, Menu, Menu, Menu, Menu, Menu, Menu>>, 1),
  T(1, Yes, {}, <<Ok, Dispose>>, 0),
  T(1, Yes, {Has(1142617, 1), Room(1, 1), Room(4, 4)}, <<Earn(200000), Give(4032391, 2), Give(4032392, 1),
      Give(4000038, 4), Give(4000463, 5), Give(4001126, 150), Give(4000313, 15), Also("setBossLog"),
      Dispose>>, 0) }

npc_9900004_999 == {
  T(0, Start, {}, <<Ok, Dispose>>, 0),
  T(0, Start, {}, <<Menu>>, 1),
  T(1, Yes, {}, <<Ok, Dispose>>, 0),
  T(1, Yes, {}, <<Dispose, OpenNpc>>, 0) }

\* lines 2 to 100 of 9900004_1894.js
npc_9900004_1894a == {
  T(0, Start, {}, <<Say>>, 1),
  T(1, Yes, {}, <<YesNo>>, 2),
  T(1, Yes, {}, <<Ok, Dispose>>, 0),
  T(1, Yes, {}, <<YesNo>>, 3),
  T(2, Yes, {}, <<Ok, Dispose>>, 0),
  T(2, Yes, {}, <<Say>>, 4),
  T(2, No, {}, <<Say>>, 8),
  T(3, Yes, {}, <<Ok, Dispose>>, 0),
  T(3, No, {}, <<Say>>, 1),
  T(8, Yes, {}, <<YesNo>>, 2) }

\* lines 101 to 234 of 9900004_1894.js
npc_9900004_1894b == {
  T(2, Yes, {}, <<Ok, Dispose>>, 0),
  T(2, Yes, {}, <<Say>>, 5),
  T(2, Yes, {}, <<Say>>, 6),
  T(2, Yes, {}, <<Say>>, 7),
  T(4, Yes, {Rich(100000)}, <<Pay(100000), Also("gainNX"), Also("setFlag"), Also("setStr"), Also("setDex"),
      Also("setInt"), Also("setLuk"), Also("setHp"), Also("setMp"), Also("setWatk"), Also("setMatk"),
      Also("setWdef"), Also("setMdef"), Also("setAcc"), Also("setAvoid"), Also("setHands"), Also("setSpeed"),
      Also("setJump"), Also("setOwner"), Dispose, Take(Some, Some), Give(Some, Some), Ok, Dispose>>, 0),
  T(4, Yes, {Rich(100000)}, <<Pay(100000), Also("gainNX"), Ok, Dispose>>, 0),
  T(4, Yes, {}, <<Ok, Dispose>>, 0),
  T(5, Yes, {Rich(500000)}, <<Pay(500000), Also("gainNX"), Also("setFlag"), Also("setStr"), Also("setDex"),
      Also("setInt"), Also("setLuk"), Also("setHp"), Also("setMp"), Also("setWatk"), Also("setMatk"),
      Also("setWdef"), Also("setMdef"), Also("setAcc"), Also("setAvoid"), Also("setHands"), Also("setSpeed"),
      Also("setJump"), Also("setOwner"), Dispose, Take(Some, Some), Give(Some, Some), Ok, Dispose>>, 0),
  T(5, Yes, {Rich(500000)}, <<Pay(500000), Also("gainNX"), Ok, Dispose>>, 0),
  T(5, Yes, {}, <<Ok, Dispose>>, 0),
  T(6, Yes, {Rich(1000000)}, <<Pay(1000000), Also("gainNX"), Also("setFlag"), Also("setStr"), Also("setDex"),
      Also("setInt"), Also("setLuk"), Also("setHp"), Also("setMp"), Also("setWatk"), Also("setMatk"),
      Also("setWdef"), Also("setMdef"), Also("setAcc"), Also("setAvoid"), Also("setHands"), Also("setSpeed"),
      Also("setJump"), Also("setOwner"), Dispose, Take(Some, Some), Give(Some, Some), Ok, Dispose>>, 0),
  T(6, Yes, {Rich(1000000)}, <<Pay(1000000), Also("gainNX"), Ok, Dispose>>, 0),
  T(6, Yes, {}, <<Ok, Dispose>>, 0),
  T(7, Yes, {Rich(10000000)}, <<Pay(10000000), Also("gainNX"), Also("setFlag"), Also("setStr"),
      Also("setDex"), Also("setInt"), Also("setLuk"), Also("setHp"), Also("setMp"), Also("setWatk"),
      Also("setMatk"), Also("setWdef"), Also("setMdef"), Also("setAcc"), Also("setAvoid"), Also("setHands"),
      Also("setSpeed"), Also("setJump"), Also("setOwner"), Dispose, Take(Some, Some), Give(Some, Some), Ok,
      Dispose>>, 0),
  T(7, Yes, {Rich(10000000)}, <<Pay(10000000), Also("gainNX"), Ok, Dispose>>, 0),
  T(7, Yes, {}, <<Ok, Dispose>>, 0) }

\* lines 2 to 1228 of 9900004_6001.js
npc_9900004_6001a == {
  T(0, Start, {}, <<Menu>>, 1) }

\* lines 1229 to 2170 of 9900004_6001.js
npc_9900004_6001b == {
  T(1, Yes, {}, <<Fail>>, 0) }

npc_9900004_6006 == {
  T(0, Start, {}, <<Menu>>, 1),
  T(1, Yes, {}, <<Also("warp"), Dispose>>, 0) }

npc_9900004_7007 == {
  T(0, Start, {}, <<Menu>>, 1),
  T(1, Yes, {}, <<Fail>>, 0) }

npc_9900005 == {
  T(0, Start, {}, <<Menu>>, 1),
  T(0, Start, {}, <<Also("setNowdaylog"), Menu>>, 1),
  T(1, Yes, {}, <<Menu>>, 2),
  T(1, Yes, {}, <<Dispose, OpenNpc>>, 0),
  T(2, Yes, {}, <<Ok, Dispose>>, 0),
  T(2, Yes, {}, <<Also("setNowdaylog"), Also("executeUpdate"), Also("warp"), Dispose>>, 0) }

npc_9900006 == {
  T(0, Start, {}, <<Say>>, 1),
  T(1, Yes, {}, <<Say, Dispose>>, 0),
  T(1, Yes, {}, <<Say>>, 2),
  T(2, Yes, {}, <<Menu>>, 3),
  T(2, Yes, {}, <<Ok, Dispose>>, 0),
  T(2, Yes, {}, <<YesNo>>, 4),
  T(3, Yes, {}, <<Also("changeJob"), Ok, Dispose>>, 0),
  T(3, Yes, {}, <<Dispose>>, 0),
  T(3, Yes, {Rich(5000000)}, <<Pay(5000000), Also("changeJob"), Ok, Dispose>>, 0),
  T(3, Yes, {Poor(5000000)}, <<Ok, Dispose>>, 0),
  T(3, Yes, {Rich(30000000)}, <<Pay(30000000), Also("gainAp"), Also("changeJob"), Ok, Dispose>>, 0),
  T(3, Yes, {Poor(30000000)}, <<Ok, Dispose>>, 0),
  T(4, Yes, {}, <<Also("changeJob"), Ok, Dispose>>, 0),
  T(4, Both, {}, <<Dispose>>, 0),
  T(4, Yes, {Rich(5000000)}, <<Pay(5000000), Also("changeJob"), Ok, Dispose>>, 0),
  T(4, Yes, {Poor(5000000)}, <<Ok, Dispose>>, 0),
  T(4, Yes, {Rich(30000000)}, <<Pay(30000000), Also("gainAp"), Also("changeJob"), Ok, Dispose>>, 0),
  T(4, Yes, {Poor(30000000)}, <<Ok, Dispose>>, 0) }

npc_9900006_48 == {
  T(0, Start, {}, <<Menu>>, 1),
  T(1, Yes, {Rich(100)}, <<Also("modifyCSPoints"), Give(2280003, 1), Dispose>>, 0),
  T(1, Yes, {Poor(100)}, <<Ok, Dispose>>, 0),
  T(1, Yes, {}, <<Dispose, OpenNpc>>, 0) }

\* lines 3 to 172 of 9900007.js
npc_9900007a == {
  T(0, Start, {}, <<Menu>>, 1),
  T(1, Yes, {}, <<Also("setCZJF"), Also("modifyCSPoints"), Ok, Dispose>>, 0),
  T(1, Yes, {}, <<Ok, Dispose>>, 0),
  T(1, Yes, {Room(0, 1), Room(1, 4)}, <<Also("setCZJF"), Give(1902024, 1), Give(1912017, 1), Ok, Dispose>>, 0),
  T(1, Yes, {Room(0, 1), Room(1, 5)}, <<Also("setCZJF"), Give(1115012, 1), Give(1115100, 1), Ok, Dispose>>, 0),
  T(1, Yes, {Room(0, 1), Room(1, 5)}, <<Also("setCZJF"), Give(1115013, 1), Give(1115101, 1), Ok, Dispose>>, 0) }

\* lines 173 to 318 of 9900007.js
npc_9900007b == {
  T(1, Yes, {}, <<Ok, Dispose>>, 0),
  T(1, Yes, {Room(0, 1), Room(1, 5)}, <<Also("setCZJF"), Give(1115014, 1), Give(1115102, 1), Ok, Dispose>>, 0),
  T(1, Yes, {Room(0, 1), Room(5, 4)}, <<Also("setCZJF"), Give(5201001, 1), Ok, Dispose>>, 0),
  T(1, Yes, {Room(0, 1), Room(5, 4)}, <<Also("setCZJF"), Give(5201002, 1), Ok, Dispose>>, 0),
  T(1, Yes, {Room(0, 1), Room(1, 4)}, <<Also("setCZJF"), Give(1932005, 1), Ok, Dispose>>, 0),
  T(1, Yes, {Room(0, 1), Room(1, 4)}, <<Also("setCZJF"), Give(1932010, 1), Ok, Dispose>>, 0) }

\* lines 319 to 492 of 9900007.js
npc_9900007c == {
  T(1, Yes, {}, <<Ok, Dispose>>, 0),
  T(1, Yes, {Room(0, 1), Room(1, 4)}, <<Also("setCZJF"), Give(1932011, 1), Ok, Dispose>>, 0),
  T(1, Yes, {Room(0, 1), Room(1, 4)}, <<Also("setCZJF"), Give(1932012, 1), Ok, Dispose>>, 0),
  T(1, Yes, {Room(0, 1), Room(1, 4)}, <<Also("setCZJF"), Give(1932096, 1), Ok, Dispose>>, 0),
  T(1, Yes, {Room(0, 1), Room(1, 4)}, <<Also("setCZJF"), Give(1932097, 1), Ok, Dispose>>, 0),
  T(1, Yes, {Room(0, 1), Room(1, 4)}, <<Also("setCZJF"), Give(1932098, 1), Ok, Dispose>>, 0),
  T(1, Yes, {Room(0, 1), Room(1, 4)}, <<Also("setCZJF"), Give(1932306, 1), Ok, Dispose>>, 0) }

\* lines 493 to 642 of 9900007.js
npc_9900007d == {
  T(1, Yes, {}, <<Ok, Dispose>>, 0),
  T(1, Yes, {Room(0, 1), Room(1, 4)}, <<Also("setCZJF"), Give(1932265, 1), Ok, Dispose>>, 0),
  T(1, Yes, {Room(0, 1), Room(1, 4)}, <<Also("setCZJF"), Give(1932223, 1), Ok, Dispose>>, 0),
  T(1, Yes, {Has(4000392, 7), Room(0, 1)}, <<Take(4000392, 7), Give(1112907, 1), Ok, Dispose>>, 0),
  T(1, Yes, {Has(4000392, 7), Room(0, 1)}, <<Take(4000392, 7), Give(1112916, 1), Ok, Dispose>>, 0),
  T(1, Yes, {Has(4000392, 30), Room(0, 1)}, <<Take(4000392, 30), Give(1112908, 1), Ok, Dispose>>, 0) }

npc_9901503 == {
  T(0, Start, {}, <<Ok, Dispose>>, 0),
  T(0, Start, {}, <<YesNo>>, 1),
  T(0, Start, {}, <<Menu>>, 2),
  T(0, Start, {}, <<Menu>>, 3),
  T(0, Start, {}, <<Ok, SafeDispose>>, 0),
  T(0, Start, {}, <<YesNo>>, 4),
  T(1, Yes, {}, <<Also("registerSquad"), Ok, Dispose>>, 0),
  T(1, No, {}, <<Dispose>>, 0),
  T(2, Yes, {}, <<Say, Dispose>>, 0),
  T(2, Yes, {}, <<Ok, Dispose>>, 0),
  T(2, Yes, {}, <<Menu>>, 5),
  T(2, Yes, {}, <<Menu>>, 6),
  T(2, Yes, {}, <<Say>>, 7),
  T(2, Yes, {}, <<Also("startInstance"), Dispose>>, 0),
  T(3, Yes, {}, <<Say, Dispose>>, 0),
  T(3, Yes, {}, <<Ok, Dispose>>, 0),
  T(3, Yes, {}, <<Also("addMember"), Ok, Dispose>>, 0),
  T(4, Both, {}, <<Also("reAdd"), SafeDispose>>, 0),
  T(4, Both, {}, <<Also("reAdd"), Ok, SafeDispose>>, 0),
  T(5, Yes, {}, <<Also("banMember"), Dispose>>, 0),
  T(6, Yes, {}, <<Dispose>>, 0),
  T(6, Yes, {}, <<Also("acceptMember"), Dispose>>, 0),
  T(7, Yes, {}, <<Dispose>>, 0) }

NpcScripts93Table == [
  npc_9300011 |-> npc_9300011, npc_9310019 |-> npc_9310019, npc_9310022 |-> npc_9310022,
  npc_9310039 |-> npc_9310039, npc_9310058_1 |-> npc_9310058_1, npc_9310058_3 |-> npc_9310058_3,
  npc_9310058_4 |-> npc_9310058_4, npc_9310058_6 |-> npc_9310058_6, npc_9310058_10 |-> npc_9310058_10,
  npc_9310058_11 |-> npc_9310058_11, npc_9310059 |-> npc_9310059,
  npc_9310059_2 |-> npc_9310059_2a \cup npc_9310059_2b, npc_9310059_3 |-> npc_9310059_3a \cup npc_9310059_3b,
  npc_9310059_4 |-> npc_9310059_4a \cup npc_9310059_4b \cup npc_9310059_4c,
  npc_9310059_5 |-> npc_9310059_5a \cup npc_9310059_5b, npc_9310059_6 |-> npc_9310059_6,
  npc_9310059_7 |-> npc_9310059_7a \cup npc_9310059_7b \cup npc_9310059_7c, npc_9310059_10 |-> npc_9310059_10,
  npc_9310059_20 |-> npc_9310059_20, npc_9310059_522 |-> npc_9310059_522, npc_9310070 |-> npc_9310070,
  npc_9310071 |-> npc_9310071a \cup npc_9310071b,
  npc_9310071_1 |-> npc_9310071_1a \cup npc_9310071_1b \cup npc_9310071_1c,
  npc_9310071_109 |-> npc_9310071_109, npc_9310072 |-> npc_9310072, npc_9310072_49 |-> npc_9310072_49,
  npc_9310072_50 |-> npc_9310072_50, npc_9310072_51 |-> npc_9310072_51a \cup npc_9310072_51b,
  npc_9310074 |-> npc_9310074a \cup npc_9310074b, npc_9310074_1 |-> npc_9310074_1,
  npc_9330045 |-> npc_9330045a \cup npc_9330045b, npc_9330045_1 |-> npc_9330045_1,
  npc_9330045_2 |-> npc_9330045_2a \cup npc_9330045_2b, npc_9330045_3 |-> npc_9330045_3,
  npc_9330045_100 |-> npc_9330045_100,
  npc_9330045_10011 |-> npc_9330045_10011a \cup npc_9330045_10011b \cup npc_9330045_10011c \cup npc_9330045_10011d,
  npc_9330045_10012 |-> npc_9330045_10012a \cup npc_9330045_10012b \cup npc_9330045_10012c,
  npc_9330074 |-> npc_9330074, npc_9330079_101 |-> npc_9330079_101,
  npc_9330079_103 |-> npc_9330079_103a \cup npc_9330079_103b, npc_9330079_200 |-> npc_9330079_200,
  npc_9330108_1 |-> npc_9330108_1a \cup npc_9330108_1b, npc_9330109 |-> npc_9330109,
  npc_9330110 |-> npc_9330110a \cup npc_9330110b,
  npc_9330111 |-> npc_9330111a \cup npc_9330111b \cup npc_9330111c \cup npc_9330111d \cup npc_9330111e,
  npc_9330117 |-> npc_9330117, npc_9900001 |-> npc_9900001, npc_9900004_4 |-> npc_9900004_4,
  npc_9900004_9 |-> npc_9900004_9, npc_9900004_72 |-> npc_9900004_72a \cup npc_9900004_72b,
  npc_9900004_73 |-> npc_9900004_73, npc_9900004_521 |-> npc_9900004_521, npc_9900004_554 |-> npc_9900004_554,
  npc_9900004_777 |-> npc_9900004_777, npc_9900004_888 |-> npc_9900004_888,
  npc_9900004_999 |-> npc_9900004_999, npc_9900004_1894 |-> npc_9900004_1894a \cup npc_9900004_1894b,
  npc_9900004_6001 |-> npc_9900004_6001a \cup npc_9900004_6001b, npc_9900004_6006 |-> npc_9900004_6006,
  npc_9900004_7007 |-> npc_9900004_7007, npc_9900005 |-> npc_9900005, npc_9900006 |-> npc_9900006,
  npc_9900006_48 |-> npc_9900006_48,
  npc_9900007 |-> npc_9900007a \cup npc_9900007b \cup npc_9900007c \cup npc_9900007d,
  npc_9901503 |-> npc_9901503 ]
================================================================================
