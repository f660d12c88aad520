\* Two versions of one note, another note and a plain memory, saved, recalled,
\* forgotten by text, phrase and number and tidied by two sessions, while the
\* plain one is on its way to the index.
SPECIFICATION Spec
CONSTANTS
    a1 = a1  a2 = a2  b = b  p = p  whole = whole  part = part  A = A  B = B
    Session = {s1, s2}
    Text = {a1, a2, b, p}
    Title = {A, B}
    Plain = plain
    TitleOf <- Titles
    Phrase = {whole, part}
    Within <- Occurs
    Distinctive = {whole}
    Graphiti = TRUE
    HotCap = 1
    MaxOps = 4
    MaxPeriods = 2
SYMMETRY Symmetry
INVARIANTS
    TypeOK
    
    SavedIsKept
    AgesAreTrue
CHECK_DEADLOCK FALSE
