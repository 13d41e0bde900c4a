SPECIFICATION FairSpec
CONSTANTS
    Build = build
    Boot = boot
    Ready = ready
    Commands = {build, boot, ready}
    NoCommand = NoCommand
INVARIANTS PrepareTypeOK RetiredIsGone SuccessIsHonest NoStrayKill NoneUnsupervised CancellationHasCause SuccessMeansReady
PROPERTY PrepareReturns
