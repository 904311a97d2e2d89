\* Three frames, empty, short, full or too long, in reads of one to nine bytes.
CONSTANTS
    HeaderLength = 4
    MaxLength = 3
    BufferSize = 9
    Lengths <- MCLengths
    MaxFrames = 3
SPECIFICATION Spec
INVARIANTS
    TypeOK
    NothingHeldBack
PROPERTIES
    RefinesMailbox
    
CHECK_DEADLOCK FALSE
