CONSTANTS
    MaxCalls = 2
    DeepCalls = 5
    Pads = {1, 2}
    Shapes <- McShapes
    Quotas = {0, 1, 2}
    Movies <- McMovies
    QueueCap = 2
    Target = 2
    Delay = 1
    MaxSteps = 6
    Guests = {1, 2}
    FontFiles = {1, 2, 3}
    Corrupt = {3}
    Covers <- McCovers
    FontSort <- McFontSort
    MaxTextCalls = 7
SPECIFICATION Spec
INVARIANTS PadsAreCounted FontsSound
PROPERTIES GpuSound SlangSound  
CHECK_DEADLOCK FALSE
