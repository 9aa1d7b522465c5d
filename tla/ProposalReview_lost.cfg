SPECIFICATION Spec
CONSTANTS
    tune = tune
    retune = retune
    sweep = sweep
    NoProposal = NoProposal
    Proposal <- MCProposal
    Content <- MCContent
    ContentOf <- MCContentOf
    MaxAttempts = 2
    KeepDone = 1
    MaxSeq = 5
    MaxBoots = 1
INVARIANT ApprovedSurvives
