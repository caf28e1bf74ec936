\* Two connections and memory for one context.
SPECIFICATION Spec
CONSTANTS
    Conns = {1, 2}
    Contexts = {1}
    Tokens = {"part", "end", "upg", "bad"}
    Chunk = 2
    MaxSent <- Sends
    MaxTotal = 3
INVARIANTS ReadFaithful ContextOwned AnsweredOnce SwitchClean
PROPERTIES PeerCloseEnds
