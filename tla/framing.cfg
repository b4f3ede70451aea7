\* Two requests and their answers, through a socket that holds five bytes.
CONSTANTS
    Message <- Messages
    Size <- Sizes
    MaxSends = 2
    Room = 5
    MayCrash = TRUE
    None = None
SPECIFICATION FairSpec
PROPERTIES RequestsArriveInOrder AnswersArriveInOrder NothingMisread MessagesArrive
\* The connection ends.
CHECK_DEADLOCK FALSE
