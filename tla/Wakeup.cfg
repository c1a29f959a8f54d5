SPECIFICATION Spec
CONSTANTS
    NumTr = 2
    MaxPipe = 3
    MaxRead = 2
    MaxNet = 2
    MaxJob = 2
    MaxEvent = 2
INVARIANTS
    JobsAwaken
    EventsAwaken
PROPERTIES
    JobsExecuted
    EventsTaken
