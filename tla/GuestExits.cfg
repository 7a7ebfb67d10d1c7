\* The guests of MCGuestExits.
CONSTANT Programs <- MCPrograms
SPECIFICATION Spec
INVARIANT TypeOK
INVARIANT ChipsFollowTheirWrites
INVARIANT FeatureLeavesAgree
PROPERTY TimerAndSerialNeverAbort
PROPERTY ReadsBack
PROPERTY AdvertisedMsrsWork
\* svm_vcpu_abort halts the machine for good.
CHECK_DEADLOCK FALSE
