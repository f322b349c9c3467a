SPECIFICATION FairSpec
CONSTANTS
    upf1 = upf1
    upf2 = upf2
    Upfs = {upf1, upf2}
    ShortHash = {upf1}
    Prompt = {upf2}
    MAX_RETRIES = 2
    MAX_ASSOCIATIONS = 1
    MaxSetups <- TwiceAndOnce
    MaxChains = 2
INVARIANT TypeOK
INVARIANT HeartbeatGoesOn
INVARIANT PromptUpfIsKept
 
CHECK_DEADLOCK FALSE
