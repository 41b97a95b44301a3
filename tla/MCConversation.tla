---------------------------- MODULE MCConversation -----------------------------
(* Conversation with the tables of all the scripts, and the scripts that its  *)
(* properties except.                                                         *)
EXTENDS Conversation, TLC,
  NpcScripts10, NpcScripts20, NpcScripts30, NpcScripts90, NpcScripts93, QuestScripts,
  SpecialScripts

AllScripts ==
  NpcScripts10Table @@ NpcScripts20Table @@ NpcScripts30Table @@ NpcScripts90Table @@
  NpcScripts93Table @@ QuestScriptsTable @@ SpecialScriptsTable

\* A call may return, or throw, without a dialogue and without dispose().
MuteScripts == {
  "npc_1012005", "npc_1012112", "npc_1022000", "npc_1032001", "npc_1052001", "npc_1052015", "npc_1061014",
  "npc_1092015_2", "npc_1092015_20", "npc_1092015_4", "npc_1092015_5", "npc_1092015_7", "npc_2020008",
  "npc_2020009", "npc_2022003", "npc_2030013", "npc_2030013_1", "npc_2040030", "npc_2081100",
  "npc_2081200", "npc_2083001", "npc_2103013", "npc_2141001", "npc_2141001_1", "npc_2143004",
  "npc_2159310", "npc_2159314", "npc_3003302_2", "npc_3003302_3", "npc_3003302_4", "npc_3003302_5",
  "npc_3003302_6", "npc_3003323", "npc_3003324_5", "npc_3003331", "npc_3003382", "npc_3003383",
  "npc_3003724", "npc_3004661", "npc_3005061", "npc_9000001", "npc_9000021", "npc_9000039", "npc_9000085",
  "npc_9010009_55", "npc_9040004", "npc_9040008", "npc_9103001", "npc_9105004", "npc_9120036",
  "npc_9120037", "npc_9120039", "npc_9120040", "npc_9120052", "npc_9120053", "npc_9201113",
  "npc_9209001_2", "npc_9209001_20", "npc_9209001_4", "npc_9209001_5", "npc_9209001_7", "npc_9220034",
  "npc_9310058_1", "npc_9310058_10", "npc_9310058_11", "npc_9310058_3", "npc_9310058_4", "npc_9310058_6",
  "npc_9310059_2", "npc_9310059_20", "npc_9310059_4", "npc_9310059_5", "npc_9310059_7", "npc_9330045_1",
  "npc_9330045_100", "npc_9330045_2", "npc_9330074", "npc_9330108_1", "npc_9330109", "npc_9900001",
  "npc_9900004_521", "npc_9900004_6001", "npc_9900004_7007", "npc_9900004_72", "npc_9900004_73",
  "npc_9901503", "quest_20201", "quest_20202", "quest_20203", "quest_20204", "quest_20205", "quest_21401",
  "quest_2314", "quest_2322", "special_002", "special_003", "special_004", "special_005", "special_006",
  "special_019", "special_020", "special_022", "special_034", "special_035", "special_036", "special_039",
  "special_060", "special_066", "special_075", "special_077", "special_081", "special_085", "special_099",
  "special_100", "special_101" }

\* sendStorage() without dispose().
TrappingScripts == {
  "npc_9330074" }

\* Two dialogues in one call, mostly a branch that lacks its return.
TalkativeScripts == {
  "npc_1052001", "npc_1092015_7", "npc_2001004", "npc_2020008", "npc_2083004_1", "npc_2083004_10",
  "npc_2094000", "npc_2103013", "npc_2133000", "npc_3003332_100", "npc_3003385_71", "npc_9000001",
  "npc_9001008", "npc_9010009_3", "npc_9010009_55", "npc_9209001_7", "npc_9250022", "npc_9310059_7",
  "npc_9330045_10011", "npc_9330045_10012", "npc_9900004_777", "npc_9900004_888", "quest_21401",
  "special_019", "special_022", "special_068", "special_085", "special_098" }

\* The item was tested in an earlier call only, or not at all.
OnCreditScripts == {
  "npc_2041024_1", "npc_3003324_2", "npc_9330045_3", "quest_20013", "quest_20201", "quest_20202",
  "quest_20203", "quest_20204", "quest_20205", "quest_21013" }

\* No test of free slots before the price is taken, or one of too few.
CarelessScripts == {
  "npc_1012005", "npc_1012008", "npc_1092015_3", "npc_1200000", "npc_2010009_2", "npc_2040016",
  "npc_2040030", "npc_2041024_1", "npc_2081005", "npc_3003302_5", "npc_3003332_144", "npc_3004661",
  "npc_9000018", "npc_9010009_55", "npc_9209001_3", "npc_9310059_3", "npc_9310074", "npc_9330045_100",
  "npc_9330045_10011", "npc_9330045_10012", "npc_9330045_3", "npc_9330108_1", "npc_9330109", "npc_9900001",
  "quest_20013", "quest_21013", "special_030", "special_054", "special_084", "special_097", "special_098" }

\* The slots are tested for other items, or fewer, than the script hands out.
CrampedScripts == {
  "npc_3004661", "npc_9330045_100", "npc_9330108_1", "npc_9330109", "npc_9900004_777", "npc_9900004_888" }

================================================================================
