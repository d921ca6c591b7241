SPECIFICATION FairSpec
CONSTANTS
    Chats <- OneChat
    Works <- OneWork
    MaxMessages = 1
    Pumps <- OnePump
    Durable = FALSE
    MaxAttempts = 2
    MaxEvents = 0
PROPERTY LanesDoNotStarve
