CONSTANTS
    Anns <- MCAnns
    Signed <- MCSigned
    Threads = {t1, t2}
    MaxTime = 3
    NoAnn = NoAnn
    NoMixer = NoMixer
SPECIFICATION Spec
PROPERTY AtomicSubmit
