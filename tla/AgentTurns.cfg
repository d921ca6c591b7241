SPECIFICATION FairSpec
CONSTANTS
    Chats <- OneChat
    Works <- OneWork
    MaxMessages = 1
    Pumps <- TwoPumps
    Durable = TRUE
    MaxAttempts = 2
    MaxEvents = 1
INVARIANTS TypeOK OneTurnAtATime ReplyIsNewest
 
