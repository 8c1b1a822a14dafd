\* two callbacks, two users, two identities of one provider
CONSTANTS
    Users = {u1, u2}
    Identities = {i1, i2}
    Callbacks = {f1, f2}
    Nobody = Nobody
SPECIFICATION FairSpec
INVARIANTS TypeOK UnusableNotServed
PROPERTIES OwnerEntitled MovedOnlyByOverlap CallbacksEnd
