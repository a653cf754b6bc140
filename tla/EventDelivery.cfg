SPECIFICATION AwaiterSpec
CONSTANTS
    Producers = {p1, p2}
    MaxPosts = 2
INVARIANTS AwaiterTypeOK LosslessInOrder AnswersAreNext
PROPERTIES MailboxSpec EveryEventDelivered AwaitIsAnswered
