SPECIFICATION FairSpec
CONSTANTS
    Lines <- SomeLines
    MaxDepth = 3
INVARIANT NothingInServiceWhenEnabled
INVARIANT HandlersAtomic
INVARIANT NoVoidEoi
PROPERTY NoLineWedged
