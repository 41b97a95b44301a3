SPECIFICATION Spec
CONSTANTS
  Scripts <- AllScripts
  None = None
  Mute <- MuteScripts
  Trapping <- TrappingScripts
  Talkative <- TalkativeScripts
  OnCredit <- OnCreditScripts
  Careless <- CarelessScripts
  Cramped <- CrampedScripts
INVARIANTS
  Released NeverStuck TrappedByWindow AllSaid HandedOver WholeDeals
